---------------------------- MODULE Spec2Model ----------------------------
(***************************************************************************)
(* Knowledge-graph service (robaikg/kg-service): the ingest path           *)
(*   POST /api/v1/ingest -> KGProcessor.process_document                   *)
(*     -> KGExtractor.extract_kg (semaphore gate, LLM call, parsing)       *)
(*     -> ChunkMapper.map_entities_to_chunks / map_relationships_to_chunks *)
(*     -> Neo4jClient.create_* (MERGE upserts)                             *)
(* and the chunk search that reads the graph back.  The service runs with  *)
(* settings.USE_GLINER_ENTITIES off, so that process_document takes the    *)
(* unified extraction branch and extract_kg is on the ingest path.         *)
(*                                                                         *)
(* Confidences are integers in hundredths (0.45 is 45).  A text value is a *)
(* TLA+ string; len() is Len, and lower()/strip()/find() are tables over   *)
(* the finite alphabet of texts the model's inputs use.                    *)
(***************************************************************************)
EXTENDS Integers, Sequences, FiniteSets, TLC

(***************************************************************************)
(* Bounds and program constants                                            *)
(***************************************************************************)
\* number of ingest requests the model submits (each runs once)
NumRequests == 3

\* settings.MAX_CONCURRENT_EXTRACTIONS as configured for the model
MAX_CONCURRENT_EXTRACTIONS == 2

\* settings.RELATION_MIN_CONFIDENCE (0.45), in hundredths
RELATION_MIN_CONFIDENCE == 45

\* ChunkMapper.overlap_threshold
overlap_threshold == 10

Requests == 1..NumRequests

(***************************************************************************)
(* Generic helpers                                                         *)
(***************************************************************************)
\* dict.get(key, default)
Get(r, f, default) == IF f \in DOMAIN r THEN r[f] ELSE default

Max(a, b) == IF a >= b THEN a ELSE b

Min(a, b) == IF a <= b THEN a ELSE b

Abs(a) == IF a >= 0 THEN a ELSE 0 - a

MinOfSet(S) == CHOOSE x \in S : \A y \in S : x <= y

RECURSIVE SortedSeq(_)
\* sorted(list(S)) for a finite set of integers
SortedSeq(S) ==
    IF S = {} THEN <<>> ELSE <<MinOfSet(S)>> \o SortedSeq(S \ {MinOfSet(S)})

Range(s) == {s[i] : i \in DOMAIN s}

(***************************************************************************)
(* Text tables                                                             *)
(***************************************************************************)
\* a JSON value that is not a string (null): .strip() on it raises AttributeError
JsonNull == "<json-null>"

IsStr(v) == v # JsonNull

\* a body of 50 blanks, the shortest IngestRequest.markdown accepts
MdBlank == "                                                  "

\* str.strip()
Strip(s) ==
    CASE s = " Neo4j " -> "Neo4j"
      [] s = MdBlank -> ""
      [] OTHER -> s

\* str.lower()
Lower(s) ==
    CASE s = "Neo4j" -> "neo4j"
      [] s = "NEO4J" -> "neo4j"
      [] s = "Knowledge Graph" -> "knowledge graph"
      [] s = "Graph Database" -> "graph database"
      [] s = "Python" -> "python"
      [] OTHER -> s

\* predicate.lower().replace(" ", "_")
SnakeCase(p) ==
    CASE p = "Built With" -> "built_with"
      [] p = "Uses" -> "uses"
      [] OTHER -> p

\* predicate.upper().replace(" ", "_")
UpperSnake(p) ==
    CASE p = "uses" -> "USES"
      [] p = "built_with" -> "BUILT_WITH"
      [] OTHER -> p

\* the two document bodies of the model (IngestRequest.markdown: 50 characters
\* at least)
MdA == "Neo4j is a Graph Database; a Knowledge Graph lives in it."

MdB == "Python code builds the Knowledge Graph of the service."

\* text.find(s): first index of s in text, -1 when absent
Find(text, s) ==
    CASE text = MdA /\ s = "Neo4j" -> 0
      [] text = MdA /\ s = "Graph Database" -> 11
      [] text = MdA /\ s = "Knowledge Graph" -> 29
      [] text = MdB /\ s = "Python" -> 0
      [] text = MdB /\ s = "Knowledge Graph" -> 23
      [] OTHER -> 0 - 1

\* text.lower().find(normalized)
FindLower(text, n) ==
    CASE text = MdA /\ n = "neo4j" -> 0
      [] text = MdA /\ n = "graph database" -> 11
      [] text = MdA /\ n = "knowledge graph" -> 29
      [] text = MdB /\ n = "python" -> 0
      [] text = MdB /\ n = "knowledge graph" -> 23
      [] OTHER -> 0 - 1

(***************************************************************************)
(* KGExtractor: response parsing and post-processing                       *)
(***************************************************************************)
\* the value a call returns, or the fact that it raised
Returned(v) == [raised |-> FALSE, value |-> v]

Raised(e) == [raised |-> TRUE, error |-> e]

\* one iteration of the loop over entities_raw; st = [entities, seen, raised]
ProcessOneEntity(st, ent_raw, text) ==
    IF ~({"text", "type", "confidence"} \subseteq DOMAIN ent_raw) THEN st
    ELSE IF ~IsStr(ent_raw.text) \/ ~IsStr(ent_raw.type)
    THEN [st EXCEPT !.raised = TRUE]      \* AttributeError: not caught in the loop
    ELSE
      LET entity_text == Strip(ent_raw.text)
          entity_type == Strip(ent_raw.type)
          confidence == ent_raw.confidence
          normalized == Strip(Lower(entity_text))
          start0 == Get(ent_raw, "start", Find(text, entity_text))
          end0 == Get(ent_raw, "end", start0 + Len(entity_text))
          invalid == start0 < 0 \/ end0 < 0 \/ start0 >= end0
          start_pos == IF invalid THEN FindLower(text, normalized) ELSE start0
          end_pos == IF invalid THEN start_pos + Len(entity_text) ELSE end0
      IN  IF confidence < RELATION_MIN_CONFIDENCE THEN st
          ELSE IF normalized \in st.seen THEN st
          ELSE IF invalid /\ start_pos < 0
          THEN [st EXCEPT !.seen = @ \cup {normalized}]
          ELSE [st EXCEPT
                  !.seen = @ \cup {normalized},
                  !.entities = Append(@,
                      [text |-> entity_text,
                       normalized |-> normalized,
                       start |-> start_pos,
                       end |-> end_pos,
                       type_full |-> entity_type,
                       confidence |-> confidence])]

RECURSIVE ProcessEntitiesFrom(_, _, _, _)
ProcessEntitiesFrom(entities_raw, i, text, st) ==
    IF i > Len(entities_raw) \/ st.raised THEN st
    ELSE ProcessEntitiesFrom(entities_raw, i + 1, text,
                             ProcessOneEntity(st, entities_raw[i], text))

\* KGExtractor._process_entities
ProcessEntities(entities_raw, text) ==
    LET st == ProcessEntitiesFrom(entities_raw, 1, text,
                  [entities |-> <<>>, seen |-> {}, raised |-> FALSE])
    IN  IF st.raised THEN Raised("AttributeError") ELSE Returned(st.entities)

\* entity_lookup.get(key): the last entity whose text.lower() or normalized is key
LookupEntity(entities, key) ==
    LET hits == {i \in DOMAIN entities :
                    Lower(entities[i].text) = key \/ entities[i].normalized = key}
    IN  IF hits = {} THEN <<>>
        ELSE <<entities[CHOOSE i \in hits : \A j \in hits : j <= i]>>

\* one iteration of the loop over relationships_raw; st = [relationships, raised]
ProcessOneRelationship(st, rel_raw, entities) ==
    IF ~({"subject", "predicate", "object", "confidence"} \subseteq DOMAIN rel_raw)
    THEN st
    ELSE IF ~IsStr(rel_raw.subject) \/ ~IsStr(rel_raw.object) \/ ~IsStr(rel_raw.predicate)
    THEN [st EXCEPT !.raised = TRUE]
    ELSE
      LET subject_text == Strip(rel_raw.subject)
          object_text == Strip(rel_raw.object)
          predicate == SnakeCase(rel_raw.predicate)
          confidence == rel_raw.confidence
          subject_entity == LookupEntity(entities, Lower(subject_text))
          object_entity == LookupEntity(entities, Lower(object_text))
      IN  IF confidence < RELATION_MIN_CONFIDENCE THEN st
          ELSE IF subject_entity = <<>> THEN st
          ELSE IF object_entity = <<>> THEN st
          ELSE IF subject_entity[1].normalized = object_entity[1].normalized THEN st
          ELSE [st EXCEPT !.relationships = Append(@,
                  [subject_text |-> subject_entity[1].text,
                   subject_normalized |-> subject_entity[1].normalized,
                   predicate |-> predicate,
                   object_text |-> object_entity[1].text,
                   object_normalized |-> object_entity[1].normalized,
                   confidence |-> confidence])]

RECURSIVE ProcessRelationshipsFrom(_, _, _, _)
ProcessRelationshipsFrom(relationships_raw, i, entities, st) ==
    IF i > Len(relationships_raw) \/ st.raised THEN st
    ELSE ProcessRelationshipsFrom(relationships_raw, i + 1, entities,
             ProcessOneRelationship(st, relationships_raw[i], entities))

\* KGExtractor._process_relationships
ProcessRelationships(relationships_raw, entities) ==
    LET st == ProcessRelationshipsFrom(relationships_raw, 1, entities,
                  [relationships |-> <<>>, raised |-> FALSE])
    IN  IF st.raised THEN Raised("AttributeError") ELSE Returned(st.relationships)

\* the empty knowledge graph ([], [])
EmptyKG == [entities |-> <<>>, relationships |-> <<>>]

\* KGExtractor._parse_llm_response, from json.loads on: the response is the
\* decoded completion, [json |-> "object" | "array" | "invalid", ...]
ParseLLMResponse(response, text) ==
    IF response.json = "invalid" THEN Returned(EmptyKG)      \* JSONDecodeError
    ELSE IF response.json # "object" THEN Returned(EmptyKG)  \* not a dict
    ELSE
      LET ents == ProcessEntities(response.entities, text)
      IN  IF ents.raised THEN ents
          ELSE LET rels == ProcessRelationships(response.relationships, ents.value)
               IN  IF rels.raised THEN rels
                   ELSE Returned([entities |-> ents.value,
                                  relationships |-> rels.value])

(***************************************************************************)
(* ChunkMapper                                                             *)
(***************************************************************************)
\* ChunkMapper._calculate_overlap
CalculateOverlap(start1, end1, start2, end2) ==
    Max(0, Min(end1, end2) - Max(start1, start2))

\* CountsAsInChunk with a strict comparison
CountsAsInChunkStrict(overlap) == overlap > overlap_threshold

\* the test `overlap >= self.overlap_threshold`
CountsAsInChunk(overlap) == overlap >= overlap_threshold

\* the occurrences of an entity: its "occurrences" list when it has one, else
\* one occurrence built from its "start_pos" / "end_pos" keys and their defaults
EntityOccurrences(entity) ==
    LET occurrences == Get(entity, "occurrences", <<>>)
        start_pos == Get(entity, "start_pos", 0)
        end_pos == Get(entity, "end_pos", start_pos + Len(entity.text))
    IN  IF occurrences # <<>> THEN occurrences
        ELSE <<[start |-> start_pos, end |-> end_pos]>>

\* the body of the loop over chunk_boundaries; st = [chunk_appearances, seen_chunks]
MapOccurrenceToChunk(st, occurrence, chunk) ==
    LET overlap == CalculateOverlap(occurrence.start, occurrence.end,
                                    chunk.char_start, chunk.char_end)
        chunk_key == <<chunk.vector_rowid, chunk.chunk_index>>
    IN  IF CountsAsInChunk(overlap) /\ chunk_key \notin st.seen_chunks
        THEN [chunk_appearances |-> Append(st.chunk_appearances,
                 [vector_rowid |-> chunk.vector_rowid,
                  chunk_index |-> chunk.chunk_index,
                  offset_start |-> Max(0, occurrence.start - chunk.char_start),
                  offset_end |-> Min(Len(chunk.text),
                                     occurrence.end - chunk.char_start)]),
              seen_chunks |-> st.seen_chunks \cup {chunk_key}]
        ELSE st

RECURSIVE MapOccurrencesFrom(_, _, _, _, _)
\* the nested loops: occurrence i, chunk j
MapOccurrencesFrom(occurrences, i, chunks, j, st) ==
    IF i > Len(occurrences) THEN st
    ELSE IF j > Len(chunks) THEN MapOccurrencesFrom(occurrences, i + 1, chunks, 1, st)
    ELSE MapOccurrencesFrom(occurrences, i, chunks, j + 1,
                            MapOccurrenceToChunk(st, occurrences[i], chunks[j]))

\* the enriched copy of one entity
MapEntityToChunks(entity, chunks) ==
    LET st == MapOccurrencesFrom(EntityOccurrences(entity), 1, chunks, 1,
                  [chunk_appearances |-> <<>>, seen_chunks |-> {}])
    IN  [chunk_appearances |-> st.chunk_appearances,
         spans_multiple_chunks |-> Len(st.chunk_appearances) > 1,
         num_chunks |-> Len(st.chunk_appearances)] @@ entity

\* ChunkMapper.map_entities_to_chunks
MapEntitiesToChunks(entities, chunks) ==
    IF chunks = <<>> THEN entities
    ELSE [i \in DOMAIN entities |-> MapEntityToChunks(entities[i], chunks)]

\* the vector_rowids of an entity's chunk appearances
AppearanceRowids(entity) ==
    {a.vector_rowid : a \in Range(Get(entity, "chunk_appearances", <<>>))}

RECURSIVE DictKeysFrom(_, _, _)
\* the keys of {app["vector_rowid"]: app for app in apps}, in insertion order
DictKeysFrom(apps, i, keys) ==
    IF i > Len(apps) THEN keys
    ELSE DictKeysFrom(apps, i + 1,
             IF apps[i].vector_rowid \in Range(keys) THEN keys
             ELSE Append(keys, apps[i].vector_rowid))

\* _get_chunk_index finding no chunk
GetChunkIndexMissing(vector_rowid, chunks) == 0

\* ChunkMapper._get_chunk_index
GetChunkIndex(vector_rowid, chunks) ==
    LET hits == {i \in DOMAIN chunks : chunks[i].vector_rowid = vector_rowid}
    IN  IF hits = {} THEN 0 ELSE chunks[MinOfSet(hits)].chunk_index

RECURSIVE ClosestFrom(_, _, _, _, _, _)
\* the loops over subject and object chunks; min_distance -1 stands for infinity
ClosestFrom(subj, i, obj, j, chunks, st) ==
    IF i > Len(subj) THEN st
    ELSE IF j > Len(obj) THEN ClosestFrom(subj, i + 1, obj, 1, chunks, st)
    ELSE
      LET distance == Abs(GetChunkIndex(subj[i], chunks) - GetChunkIndex(obj[j], chunks))
      IN  ClosestFrom(subj, i, obj, j + 1, chunks,
              IF st.min_distance < 0 \/ distance < st.min_distance
              THEN [min_distance |-> distance, primary_rowid |-> Min(subj[i], obj[j])]
              ELSE st)

\* None
None == 0 - 1

\* ChunkMapper._find_primary_chunk
FindPrimaryChunk(subject_entity, object_entity, chunks) ==
    LET subject_chunks == DictKeysFrom(Get(subject_entity, "chunk_appearances", <<>>), 1, <<>>)
        object_chunks == DictKeysFrom(Get(object_entity, "chunk_appearances", <<>>), 1, <<>>)
        shared == Range(subject_chunks) \cap Range(object_chunks)
    IN  IF shared # {} THEN MinOfSet(shared)
        ELSE IF subject_chunks # <<>> /\ object_chunks # <<>>
        THEN ClosestFrom(subject_chunks, 1, object_chunks, 1, chunks,
                         [min_distance |-> 0 - 1, primary_rowid |-> None]).primary_rowid
        ELSE IF subject_chunks # <<>> THEN MinOfSet(Range(subject_chunks))
        ELSE IF object_chunks # <<>> THEN MinOfSet(Range(object_chunks))
        ELSE None

\* entity_lookup.get(normalized) of map_relationships_to_chunks (last one wins)
LookupNormalized(entities, normalized) ==
    LET hits == {i \in DOMAIN entities : entities[i].normalized = normalized}
    IN  IF hits = {} THEN <<>>
        ELSE <<entities[CHOOSE i \in hits : \A j \in hits : j <= i]>>

RECURSIVE MapRelationshipsFrom(_, _, _, _, _)
MapRelationshipsFrom(relationships, i, entity_chunk_map, chunks, out) ==
    IF i > Len(relationships) THEN out
    ELSE
      LET rel == relationships[i]
          subject_entity == LookupNormalized(entity_chunk_map, rel.subject_normalized)
          object_entity == LookupNormalized(entity_chunk_map, rel.object_normalized)
      IN  MapRelationshipsFrom(relationships, i + 1, entity_chunk_map, chunks,
            IF subject_entity = <<>> \/ object_entity = <<>> THEN out
            ELSE
              LET subject_chunks == AppearanceRowids(subject_entity[1])
                  object_chunks == AppearanceRowids(object_entity[1])
              IN  Append(out,
                    [spans_chunks |-> (subject_chunks \cap object_chunks) = {},
                     chunk_rowids |-> SortedSeq(subject_chunks \cup object_chunks),
                     primary_chunk_rowid |->
                         FindPrimaryChunk(subject_entity[1], object_entity[1], chunks),
                     num_chunks_involved |->
                         Cardinality(subject_chunks \cup object_chunks)] @@ rel))

\* ChunkMapper.map_relationships_to_chunks
MapRelationshipsToChunks(relationships, entity_chunk_map, chunks) ==
    IF chunks = <<>> THEN relationships
    ELSE MapRelationshipsFrom(relationships, 1, entity_chunk_map, chunks, <<>>)

(***************************************************************************)
(* Neo4jClient: the graph and its MERGE upserts                            *)
(*                                                                         *)
(* A node's elementId is a natural number drawn from next_id.  An average   *)
(* is an exact fraction [num, den] in lowest terms.                        *)
(***************************************************************************)
RECURSIVE GCD(_, _)
GCD(a, b) == IF b = 0 THEN a ELSE GCD(b, a % b)

Fraction(num, den) ==
    LET g == GCD(num, den) IN [num |-> num \div g, den |-> den \div g]

\* RunningAverage reading the count after its increment as the count before it
RunningAverageStale(avg, n, sample) ==
    Fraction(avg.num * (n - 1) + sample * avg.den, avg.den * n)

\* (avg * n + sample) / (n + 1)
RunningAverage(avg, n, sample) ==
    Fraction(avg.num * n + sample * avg.den, avg.den * (n + 1))

EmptyGraph ==
    [next_id |-> 1,
     documents |-> {},
     chunks |-> {},
     entities |-> {},
     has_chunk |-> {},
     mentioned_in |-> {},
     relationships |-> {},
     co_occurs_with |-> {}]

\* a statement's effect on the graph together with the node id it returns
Wrote(g, node_id) == [graph |-> g, node_id |-> node_id]

\* Neo4jClient.create_document: MERGE (d:Document {content_id})
CreateDocument(g, content_id) ==
    LET found == {d \in g.documents : d.content_id = content_id}
    IN  IF found # {} THEN Wrote(g, (CHOOSE d \in found : TRUE).id)
        ELSE Wrote([g EXCEPT
                      !.documents = @ \cup {[id |-> g.next_id, content_id |-> content_id]},
                      !.next_id = @ + 1],
                   g.next_id)

\* CreateChunk with CREATE in place of MERGE: a new Chunk node on every call
CreateChunkNoMerge(g, document_node_id, chunk) ==
    LET node == [id |-> g.next_id,
                 vector_rowid |-> chunk.vector_rowid,
                 chunk_index |-> chunk.chunk_index,
                 char_start |-> chunk.char_start,
                 char_end |-> chunk.char_end]
    IN  IF ~(\E d \in g.documents : d.id = document_node_id)
        THEN Wrote(g, None)
        ELSE Wrote([g EXCEPT
                      !.chunks = @ \cup {node},
                      !.next_id = @ + 1,
                      !.has_chunk = @ \cup {<<document_node_id, g.next_id>>}],
                   g.next_id)

\* Neo4jClient.create_chunk: MATCH the document, MERGE (c:Chunk {vector_rowid}),
\* SET its properties, MERGE (d)-[:HAS_CHUNK]->(c)
CreateChunk(g, document_node_id, chunk) ==
    LET found == {c \in g.chunks : c.vector_rowid = chunk.vector_rowid}
        node_id == IF found # {} THEN (CHOOSE c \in found : TRUE).id ELSE g.next_id
        node == [id |-> node_id,
                 vector_rowid |-> chunk.vector_rowid,
                 chunk_index |-> chunk.chunk_index,
                 char_start |-> chunk.char_start,
                 char_end |-> chunk.char_end]
    IN  IF ~(\E d \in g.documents : d.id = document_node_id)
        THEN Wrote(g, None)
        ELSE Wrote([g EXCEPT
                      !.chunks = (@ \ found) \cup {node},
                      !.next_id = IF found # {} THEN @ ELSE @ + 1,
                      !.has_chunk = @ \cup {<<document_node_id, node_id>>}],
                   node_id)

\* Neo4jClient.create_entity: MERGE (e:Entity {normalized}) ON CREATE / ON MATCH
CreateEntity(g, entity) ==
    LET found == {e \in g.entities : e.normalized = entity.normalized}
        old == CHOOSE e \in found : TRUE
    IN  IF found # {}
        THEN Wrote([g EXCEPT !.entities = (@ \ found) \cup
                      {[old EXCEPT
                          !.mention_count = @ + 1,
                          !.avg_confidence =
                              RunningAverage(@, old.mention_count, entity.confidence)]}],
                   old.id)
        ELSE Wrote([g EXCEPT
                      !.entities = @ \cup
                          {[id |-> g.next_id,
                            normalized |-> entity.normalized,
                            text |-> entity.text,
                            type_full |-> entity.type_full,
                            mention_count |-> 1,
                            avg_confidence |-> Fraction(entity.confidence, 1)]},
                      !.next_id = @ + 1],
                   g.next_id)

\* Neo4jClient.link_entity_to_chunk: MERGE (e)-[m:MENTIONED_IN]->(c), SET m.*
LinkEntityToChunk(g, entity_node_id, chunk_node_id, appearance, confidence) ==
    LET found == {m \in g.mentioned_in :
                     m.entity_id = entity_node_id /\ m.chunk_id = chunk_node_id}
    IN  IF ~(\E e \in g.entities : e.id = entity_node_id)
           \/ ~(\E c \in g.chunks : c.id = chunk_node_id)
        THEN g
        ELSE [g EXCEPT !.mentioned_in = (@ \ found) \cup
                 {[entity_id |-> entity_node_id,
                   chunk_id |-> chunk_node_id,
                   offset_start |-> appearance.offset_start,
                   offset_end |-> appearance.offset_end,
                   confidence |-> confidence]}]

\* Neo4jClient.create_relationship: MATCH both entities, MERGE (s)-[r:TYPE]->(o)
CreateRelationship(g, rel) ==
    LET rel_type == UpperSnake(rel.predicate)
        subj == {e \in g.entities : e.normalized = rel.subject_normalized}
        obj == {e \in g.entities : e.normalized = rel.object_normalized}
        s_id == (CHOOSE e \in subj : TRUE).id
        o_id == (CHOOSE e \in obj : TRUE).id
        found == {r \in g.relationships :
                     r.subject = s_id /\ r.rel_type = rel_type /\ r.object = o_id}
        old == CHOOSE r \in found : TRUE
    IN  IF subj = {} \/ obj = {} THEN g
        ELSE IF found # {}
        THEN [g EXCEPT !.relationships = (@ \ found) \cup
                {[old EXCEPT
                    !.confidence = RunningAverage(@, old.occurrence_count, rel.confidence),
                    !.occurrence_count = @ + 1]}]
        ELSE [g EXCEPT !.relationships = @ \cup
                {[subject |-> s_id,
                  rel_type |-> rel_type,
                  object |-> o_id,
                  confidence |-> Fraction(rel.confidence, 1),
                  occurrence_count |-> 1]}]

\* the normalized keys in Python's and Cypher's string order
KeyOrder == <<"knowledge graph", "neo4j", "python">>

\* a < b on two normalized keys
StrLess(a, b) ==
    \E i, j \in DOMAIN KeyOrder : KeyOrder[i] = a /\ KeyOrder[j] = b /\ i < j

\* the MATCH ... WHERE ... MERGE statement of update_co_occurrence
MergeCoOccurrence(g, entity1, entity2, chunk_rowid) ==
    LET rows == {<<e1, e2>> \in g.entities \X g.entities :
                    /\ e1.normalized = entity1
                    /\ e2.normalized = entity2
                    /\ StrLess(e1.normalized, e2.normalized)}
        row == CHOOSE x \in rows : TRUE
        found == {co \in g.co_occurs_with : co.e1 = row[1].id /\ co.e2 = row[2].id}
        old == CHOOSE co \in found : TRUE
    IN  IF rows = {} THEN g
        ELSE IF found # {}
        THEN [g EXCEPT !.co_occurs_with = (@ \ found) \cup
                {[old EXCEPT !.count = @ + 1,
                             !.chunk_rowids = Append(@, chunk_rowid)]}]
        ELSE [g EXCEPT !.co_occurs_with = @ \cup
                {[e1 |-> row[1].id, e2 |-> row[2].id,
                  count |-> 1, chunk_rowids |-> <<chunk_rowid>>]}]

\* UpdateCoOccurrence passing the two keys on as they came
UpdateCoOccurrenceAsGiven(g, entity1_normalized, entity2_normalized, chunk_rowid) ==
    MergeCoOccurrence(g, entity1_normalized, entity2_normalized, chunk_rowid)

\* Neo4jClient.update_co_occurrence
UpdateCoOccurrence(g, entity1_normalized, entity2_normalized, chunk_rowid) ==
    IF StrLess(entity2_normalized, entity1_normalized)
    THEN MergeCoOccurrence(g, entity2_normalized, entity1_normalized, chunk_rowid)
    ELSE MergeCoOccurrence(g, entity1_normalized, entity2_normalized, chunk_rowid)

(***************************************************************************)
(* KGProcessor._store_in_neo4j and the result of process_document          *)
(***************************************************************************)
RECURSIVE StoreChunksFrom(_, _, _, _)
\* the loop over chunks; st = [graph, chunk_node_map]
StoreChunksFrom(chunks, i, doc_node_id, st) ==
    IF i > Len(chunks) THEN st
    ELSE LET w == CreateChunk(st.graph, doc_node_id, chunks[i])
         IN  StoreChunksFrom(chunks, i + 1, doc_node_id,
                 [graph |-> w.graph,
                  chunk_node_map |->
                      (chunks[i].vector_rowid :> w.node_id) @@ st.chunk_node_map])

RECURSIVE LinkAppearancesFrom(_, _, _, _, _, _)
\* the loop over an entity's chunk_appearances
LinkAppearancesFrom(appearances, i, entity_node_id, confidence, chunk_node_map, g) ==
    IF i > Len(appearances) THEN g
    ELSE LinkAppearancesFrom(appearances, i + 1, entity_node_id, confidence,
             chunk_node_map,
             IF appearances[i].vector_rowid \in DOMAIN chunk_node_map
             THEN LinkEntityToChunk(g, entity_node_id,
                      chunk_node_map[appearances[i].vector_rowid],
                      appearances[i], confidence)
             ELSE g)

RECURSIVE StoreEntitiesFrom(_, _, _, _)
\* the loop over entities; st = [graph, entity_node_map]
StoreEntitiesFrom(entities, i, chunk_node_map, st) ==
    IF i > Len(entities) THEN st
    ELSE LET w == CreateEntity(st.graph, entities[i])
         IN  StoreEntitiesFrom(entities, i + 1, chunk_node_map,
                 [graph |-> LinkAppearancesFrom(
                                Get(entities[i], "chunk_appearances", <<>>), 1,
                                w.node_id, entities[i].confidence,
                                chunk_node_map, w.graph),
                  entity_node_map |->
                      (entities[i].normalized :> w.node_id) @@ st.entity_node_map])

RECURSIVE StoreRelationshipsFrom(_, _, _)
\* the loop over relationships
StoreRelationshipsFrom(relationships, i, g) ==
    IF i > Len(relationships) THEN g
    ELSE StoreRelationshipsFrom(relationships, i + 1,
                                CreateRelationship(g, relationships[i]))

\* a function with the empty domain ({} in Python)
EmptyMap == [x \in {} |-> 0]

\* KGProcessor._store_in_neo4j
StoreInNeo4j(g, content_id, chunks, entities, relationships) ==
    LET doc == CreateDocument(g, content_id)
        cs == StoreChunksFrom(chunks, 1, doc.node_id,
                  [graph |-> doc.graph, chunk_node_map |-> EmptyMap])
        es == StoreEntitiesFrom(entities, 1, cs.chunk_node_map,
                  [graph |-> cs.graph, entity_node_map |-> EmptyMap])
    IN  [graph |-> StoreRelationshipsFrom(relationships, 1, es.graph),
         document_node_id |-> doc.node_id,
         chunk_count |-> Cardinality(DOMAIN cs.chunk_node_map),
         entity_count |-> Cardinality(DOMAIN es.entity_node_map),
         relationship_count |-> Len(relationships)]

\* KGProcessor._format_entities_for_response
FormatEntitiesForResponse(entities) ==
    [i \in DOMAIN entities |->
        [text |-> entities[i].text,
         normalized |-> entities[i].normalized,
         type_full |-> entities[i].type_full,
         confidence |-> entities[i].confidence,
         chunk_appearances |-> Get(entities[i], "chunk_appearances", <<>>),
         spans_multiple_chunks |-> Get(entities[i], "spans_multiple_chunks", FALSE)]]

\* KGProcessor._format_relationships_for_response
FormatRelationshipsForResponse(relationships) ==
    [i \in DOMAIN relationships |->
        [subject_text |-> relationships[i].subject_text,
         subject_normalized |-> relationships[i].subject_normalized,
         predicate |-> relationships[i].predicate,
         object_text |-> relationships[i].object_text,
         object_normalized |-> relationships[i].object_normalized,
         confidence |-> relationships[i].confidence,
         spans_chunks |-> Get(relationships[i], "spans_chunks", FALSE),
         chunk_rowids |-> Get(relationships[i], "chunk_rowids", <<>>)]]

\* MapAndStore writing nothing when the extraction came back empty
MapAndStoreSkipEmpty(g, request, extracted) ==
    IF extracted.entities # <<>>
    THEN LET mapped_entities == MapEntitiesToChunks(extracted.entities, request.chunks)
             mapped_relationships ==
                 MapRelationshipsToChunks(extracted.relationships, mapped_entities,
                                          request.chunks)
             neo4j_result == StoreInNeo4j(g, request.content_id, request.chunks,
                                          mapped_entities, mapped_relationships)
         IN  [graph |-> neo4j_result.graph,
              result |->
                 [success |-> TRUE,
                  content_id |-> request.content_id,
                  neo4j_document_id |-> neo4j_result.document_node_id,
                  entities_extracted |-> Len(mapped_entities),
                  relationships_extracted |-> Len(mapped_relationships),
                  entities |-> FormatEntitiesForResponse(mapped_entities),
                  relationships |-> FormatRelationshipsForResponse(mapped_relationships)]]
    ELSE [graph |-> g,
          result |->
             [success |-> TRUE,
              content_id |-> request.content_id,
              neo4j_document_id |-> None,
              entities_extracted |-> 0,
              relationships_extracted |-> 0,
              entities |-> <<>>,
              relationships |-> <<>>]]

\* KGProcessor.process_document from step 3 on: chunk mapping, storage, result
MapAndStore(g, request, extracted) ==
    LET mapped_entities == MapEntitiesToChunks(extracted.entities, request.chunks)
        mapped_relationships ==
            MapRelationshipsToChunks(extracted.relationships, mapped_entities,
                                     request.chunks)
        neo4j_result == StoreInNeo4j(g, request.content_id, request.chunks,
                                     mapped_entities, mapped_relationships)
    IN  [graph |-> neo4j_result.graph,
         result |->
            [success |-> TRUE,
             content_id |-> request.content_id,
             neo4j_document_id |-> neo4j_result.document_node_id,
             entities_extracted |-> Len(mapped_entities),
             relationships_extracted |-> Len(mapped_relationships),
             entities |-> FormatEntitiesForResponse(mapped_entities),
             relationships |-> FormatRelationshipsForResponse(mapped_relationships)]]

\* POST /api/v1/search/chunks with entity_names: the vector_rowids of the chunks
\* some named entity is MENTIONED_IN
SearchChunks(g, entity_names) ==
    {c.vector_rowid : c \in
        {c \in g.chunks :
            \E e \in g.entities, m \in g.mentioned_in :
                /\ m.entity_id = e.id
                /\ m.chunk_id = c.id
                /\ (e.text \in entity_names \/ e.normalized \in entity_names)}}

(***************************************************************************)
(* Inputs: ingest requests and LLM completions                             *)
(***************************************************************************)
DocA ==
    [content_id |-> 1,
     markdown |-> MdA,
     chunks |-> <<[vector_rowid |-> 1, chunk_index |-> 0,
                   char_start |-> 0, char_end |-> 30,
                   text |-> "Neo4j is a Graph Database; a K"],
                  [vector_rowid |-> 2, chunk_index |-> 1,
                   char_start |-> 25, char_end |-> 57,
                   text |-> "; a Knowledge Graph lives in it."]>>]

DocB ==
    [content_id |-> 2,
     markdown |-> MdB,
     chunks |-> <<[vector_rowid |-> 3, chunk_index |-> 0,
                   char_start |-> 0, char_end |-> 54,
                   text |-> MdB]>>]

\* a body of whitespace only: extract_kg returns before the gate
DocBlank ==
    [content_id |-> 3,
     markdown |-> MdBlank,
     chunks |-> <<[vector_rowid |-> 4, chunk_index |-> 0,
                   char_start |-> 0, char_end |-> 10,
                   text |-> "          "]>>]

Docs == {DocA, DocB, DocBlank}

\* decoded completions
RespGood ==
    [json |-> "object",
     entities |-> <<[text |-> "Neo4j", type |-> "Database", confidence |-> 90,
                     start |-> 0, end |-> 5],
                    [text |-> "Knowledge Graph", type |-> "Concept",
                     confidence |-> 80],
                    [text |-> "Python", type |-> "Language", confidence |-> 30]>>,
     relationships |-> <<[subject |-> "Neo4j", predicate |-> "Uses",
                          object |-> "Knowledge Graph", confidence |-> 70]>>]

RespEmpty == [json |-> "object", entities |-> <<>>, relationships |-> <<>>]

RespInvalid == [json |-> "invalid", entities |-> <<>>, relationships |-> <<>>]

\* an entity whose "text" is null
RespNullText ==
    [json |-> "object",
     entities |-> <<[text |-> JsonNull, type |-> "Database", confidence |-> 90]>>,
     relationships |-> <<>>]

Responses == {RespGood, RespEmpty, RespInvalid, RespNullText}

\* what the completion request to the LLM server ends in
LLMEvents ==
    {[kind |-> "response", response |-> r] : r \in Responses}
    \cup {[kind |-> k] : k \in {"timeout", "unavailable", "bad_payload"}}

(***************************************************************************)
(* VLLMClient.complete and the body of KGExtractor.extract_kg              *)
(***************************************************************************)
\* VLLMClient.complete: the completion text, or the exception it raises
VLLMComplete(event) ==
    CASE event.kind = "response" -> Returned(event.response)
      [] event.kind = "unavailable" -> Raised("ModelUnavailableError")
      [] event.kind = "timeout" -> Raised("ModelUnavailableError")
      [] OTHER -> Raised("KeyError")

\* KGExtractor._update_metrics on the counters record
UpdateMetrics(m, action) ==
    CASE action = "queue" -> [m EXCEPT !.total_queued = @ + 1]
      [] action = "start" -> [m EXCEPT !.active_extractions = @ + 1]
      [] action = "complete" -> [m EXCEPT !.active_extractions = @ - 1,
                                          !.total_completed = @ + 1]
      [] action = "fail" -> [m EXCEPT !.active_extractions = @ - 1,
                                      !.total_failed = @ + 1]
      [] OTHER -> m

\* KGExtractor.get_metrics
GetMetrics(m) ==
    [active_extractions |-> m.active_extractions,
     total_queued |-> m.total_queued,
     total_completed |-> m.total_completed,
     total_failed |-> m.total_failed,
     max_concurrent |-> MAX_CONCURRENT_EXTRACTIONS,
     slots_available |-> MAX_CONCURRENT_EXTRACTIONS - m.active_extractions]

\* OnExtractionError letting the exception through to the caller
OnExtractionErrorRaises(error) == [metric |-> "fail", result |-> Raised(error)]

\* the `except Exception` clause of extract_kg
OnExtractionError(error) == [metric |-> "fail", result |-> Returned(EmptyKG)]

\* the try block of extract_kg: the counter update and what the call returns
TryExtraction(event, text) ==
    LET completion == VLLMComplete(event)
        parsed == ParseLLMResponse(completion.value, text)
    IN  IF completion.raised THEN OnExtractionError(completion.error)
        ELSE IF parsed.raised THEN OnExtractionError(parsed.error)
        ELSE [metric |-> "complete", result |-> Returned(parsed.value)]

\* what the request went through, for the record
ExtractionOutcome(event, text) ==
    IF event.kind # "response" THEN event.kind
    ELSE IF ParseLLMResponse(event.response, text).raised THEN "parse_raised"
    ELSE IF event.response.json # "object" THEN "undecodable"
    ELSE "parsed"

(***************************************************************************)
(* State                                                                   *)
(***************************************************************************)
VARIABLES
    pc,           \* per request: where its coroutine is suspended
    req,          \* per request: the IngestRequest it carries
    kg,           \* per request: what extract_kg returned
    http,         \* per request: the HTTP response of POST /api/v1/ingest
    semaphore,    \* KGExtractor._extraction_semaphore: free slots
    metrics,      \* KGExtractor._active_extractions, _total_queued, ...
    vllm_client,  \* KGExtractor.vllm_client is not None
    graph,        \* the Neo4j graph
    acquired,     \* per request: times it acquired an extraction slot
    released,     \* per request: times it released an extraction slot
    outcome,      \* per request: what its extraction went through
    waited,       \* per request: it found no slot available when it queued
    map_entity,   \* ChunkMapper called directly: the entity given
    map_chunks,   \* ChunkMapper called directly: the chunks given
    map_result,   \* ChunkMapper called directly: the entities returned
    kg_processor, \* server.kg_processor is not None
    body,         \* POST /api/v1/ingest: the JSON body of the request under validation
    ingests,      \* process_document run one call at a time: the calls so far
    co_calls,     \* update_co_occurrence: the calls so far
    search_request,  \* a search endpoint called: its request
    search_response, \* a search endpoint called: what it returned
    query_result, \* _score_and_rank_chunks called directly: its query_result
    model_state,  \* VLLMClient: model_name, last_check, is_available
    now,          \* time.time(), in seconds
    callers,      \* VLLMClient: where each call of ensure_model / complete stands
    client_log,   \* VLLMClient: what its calls did, in order
    store,        \* _store_in_neo4j run statement by statement: where it stands
    unit_call,    \* a function called on its own: its name, arguments and result
    health,       \* KGServiceClient.health_check: where the call stands
    initializer   \* KGProcessor.initialize: the lock, the flag and the callers

pipeline_vars ==
    <<pc, req, kg, http, semaphore, metrics, vllm_client, graph,
      acquired, released, outcome, waited>>

mapper_vars == <<map_entity, map_chunks, map_result>>

server_vars == <<kg_processor, body>>

\* what the steps of the ingest path leave alone
log_vars == <<ingests, co_calls>>

search_vars == <<search_request, search_response, query_result>>

client_vars == <<model_state, now, callers, client_log>>

store_vars == <<store>>

call_vars == <<unit_call>>

health_vars == <<health>>

init_vars == <<initializer>>

unit_vars == <<client_vars, store_vars, call_vars, health_vars, init_vars>>

\* what each unit leaves alone
beside_client ==
    <<pipeline_vars, mapper_vars, server_vars, log_vars, search_vars,
      store_vars, call_vars, health_vars, init_vars>>

beside_store ==
    <<mapper_vars, server_vars, log_vars, search_vars,
      client_vars, call_vars, health_vars, init_vars>>

beside_call ==
    <<pipeline_vars, mapper_vars, server_vars, log_vars, search_vars,
      client_vars, store_vars, health_vars, init_vars>>

beside_health ==
    <<pipeline_vars, mapper_vars, server_vars, log_vars, search_vars,
      client_vars, store_vars, call_vars, init_vars>>

beside_init ==
    <<pipeline_vars, mapper_vars, server_vars, log_vars, search_vars,
      client_vars, store_vars, call_vars, health_vars>>

aside_vars == <<mapper_vars, server_vars, log_vars, search_vars, unit_vars>>

vars == <<pipeline_vars, aside_vars>>

NoRequest == [content_id |-> 0, markdown |-> "", chunks |-> <<>>]

NoResponse == [status |-> 0]

\* extract_kg has not returned
NotReturned == [pending |-> TRUE]

NoEntity == [text |-> ""]

\* no request has reached the extractor
IdleExtractor ==
    /\ pc = [t \in Requests |-> "new"]
    /\ req = [t \in Requests |-> NoRequest]
    /\ kg = [t \in Requests |-> NotReturned]
    /\ http = [t \in Requests |-> NoResponse]
    /\ semaphore = MAX_CONCURRENT_EXTRACTIONS
    /\ metrics = [active_extractions |-> 0, total_queued |-> 0,
                  total_completed |-> 0, total_failed |-> 0]
    /\ vllm_client = FALSE
    /\ acquired = [t \in Requests |-> 0]
    /\ released = [t \in Requests |-> 0]
    /\ outcome = [t \in Requests |-> "none"]
    /\ waited = [t \in Requests |-> FALSE]

InitPipeline ==
    /\ IdleExtractor
    /\ graph = EmptyGraph

\* ChunkMapper is not called on its own
NoMapperCall ==
    /\ map_entity = NoEntity
    /\ map_chunks = <<>>
    /\ map_result = <<>>

\* the lifespan startup has set kg_processor; no body is under validation
ServerUp ==
    /\ kg_processor = TRUE
    /\ body = NoRequest

NoIngestLog == ingests = <<>> /\ co_calls = <<>>

NoSearchRequest == [endpoint |-> "none"]

NoQueryResult == [search_chunks |-> <<>>, expanded_chunks |-> <<>>]

\* no search endpoint is called
NoSearch ==
    /\ search_request = NoSearchRequest
    /\ search_response = <<>>
    /\ query_result = NoQueryResult

\* VLLMClient.__init__: no model known
NoModel == [model_name |-> JsonNull, last_check |-> None, is_available |-> FALSE]

ClientCallers == {1, 2}

IdleCaller == [pc |-> "idle", kind |-> "none", current_time |-> 0]

\* a VLLMClient just constructed, no call on it
NewClient ==
    /\ model_state = NoModel
    /\ now = 0
    /\ callers = [c \in ClientCallers |-> IdleCaller]
    /\ client_log = <<>>

\* _store_in_neo4j is not running
IdleStore == [phase |-> "idle", stored |-> 0]

NoCall == [fn |-> "none"]

\* no health check asked for
NoHealthCheck == [pc |-> "idle", client |-> "none", tries |-> 0, log |-> <<>>]

\* KGProcessor.__init__: not initialized, the lock free, nobody calling
ProcessorCallers == {1, 2, 3}

NoInitializeCall ==
    [pc |-> "idle", kind |-> "none", waited |-> FALSE, after_success |-> FALSE,
     connected |-> FALSE, result |-> "none"]

NewProcessor ==
    [initialized |-> FALSE, lock |-> 0, successes |-> 0, started |-> 0,
     shutdowns |-> 0, calls |-> [c \in ProcessorCallers |-> NoInitializeCall]]

\* none of the units is called on its own
NoUnitCall ==
    /\ NewClient
    /\ store = IdleStore
    /\ unit_call = NoCall
    /\ health = NoHealthCheck
    /\ initializer = NewProcessor

Init ==
    /\ InitPipeline
    /\ NoMapperCall
    /\ ServerUp
    /\ NoIngestLog
    /\ NoSearch
    /\ NoUnitCall

(***************************************************************************)
(* Actions of the ingest path.  A step runs a coroutine from one           *)
(* suspension point to the next: the locks of _get_semaphore and           *)
(* _update_metrics are never held across a suspension, so acquiring them   *)
(* never suspends.                                                         *)
(***************************************************************************)
\* `async with semaphore:` entered, then _update_metrics("start")
TakeSlot(t) ==
    /\ semaphore' = semaphore - 1
    /\ acquired' = [acquired EXCEPT ![t] = @ + 1]
    /\ pc' = [pc EXCEPT ![t] = "llm"]

\* extract_kg from _get_semaphore to the semaphore: _update_metrics("queue"),
\* the slots_available test, and the slot when one is free
EnterGate(t) ==
    LET queued == UpdateMetrics(metrics, "queue")
    IN  /\ waited' = [waited EXCEPT ![t] = GetMetrics(queued).slots_available <= 0]
        /\ IF semaphore > 0
           THEN /\ TakeSlot(t)
                /\ metrics' = UpdateMetrics(queued, "start")
           ELSE /\ pc' = [pc EXCEPT ![t] = "wait"]
                /\ metrics' = queued
                /\ UNCHANGED <<semaphore, acquired>>

\* POST /api/v1/ingest arrives: ingest_document -> process_document -> extract_kg
\* up to its first suspension
Submit(t, d) ==
    /\ pc[t] = "new"
    /\ req' = [req EXCEPT ![t] = d]
    /\ IF Strip(d.markdown) = ""
       THEN /\ pc' = [pc EXCEPT ![t] = "store"]
            /\ kg' = [kg EXCEPT ![t] = EmptyKG]
            /\ outcome' = [outcome EXCEPT ![t] = "empty_text"]
            /\ UNCHANGED <<semaphore, metrics, vllm_client, acquired, waited>>
       ELSE IF ~vllm_client
       THEN /\ vllm_client' = TRUE
            /\ pc' = [pc EXCEPT ![t] = "ensure"]
            /\ UNCHANGED <<kg, semaphore, metrics, acquired, waited, outcome>>
       ELSE /\ EnterGate(t)
            /\ UNCHANGED <<kg, vllm_client, outcome>>
    /\ UNCHANGED <<http, graph, released>>
    /\ UNCHANGED aside_vars

\* _ensure_vllm_client: the first ensure_model() returns (it never raises)
EnsureModelReturns(t) ==
    /\ pc[t] = "ensure"
    /\ EnterGate(t)
    /\ UNCHANGED <<req, kg, http, vllm_client, graph, released, outcome>>
    /\ UNCHANGED aside_vars

\* a waiting caller gets a freed slot
Acquire(t) ==
    /\ pc[t] = "wait"
    /\ semaphore > 0
    /\ TakeSlot(t)
    /\ metrics' = UpdateMetrics(metrics, "start")
    /\ UNCHANGED <<req, kg, http, vllm_client, graph, released, outcome, waited>>
    /\ UNCHANGED aside_vars

\* CompletionEnds with the slot released by hand at the end of the try block
\* only, so that the except clause returns while still holding it
CompletionEndsHoldingSlot(t, event) ==
    LET x == TryExtraction(event, req[t].markdown)
        held == x.metric = "fail"
    IN  /\ pc[t] = "llm"
        /\ metrics' = UpdateMetrics(metrics, x.metric)
        /\ semaphore' = IF held THEN semaphore ELSE semaphore + 1
        /\ released' = IF held THEN released ELSE [released EXCEPT ![t] = @ + 1]
        /\ outcome' = [outcome EXCEPT ![t] = ExtractionOutcome(event, req[t].markdown)]
        /\ IF x.result.raised
           THEN /\ pc' = [pc EXCEPT ![t] = "done"]
                /\ http' = [http EXCEPT ![t] = [status |-> 500]]
                /\ kg' = kg
           ELSE /\ pc' = [pc EXCEPT ![t] = "store"]
                /\ kg' = [kg EXCEPT ![t] = x.result.value]
                /\ http' = http
        /\ UNCHANGED <<req, vllm_client, graph, acquired, waited>>
        /\ UNCHANGED aside_vars

\* the completion request ends: the rest of extract_kg's try block or its
\* except clause, the slot released on leaving the `async with`, and
\* process_document / ingest_document up to the graph writes
CompletionEnds(t, event) ==
    LET x == TryExtraction(event, req[t].markdown)
    IN  /\ pc[t] = "llm"
        /\ metrics' = UpdateMetrics(metrics, x.metric)
        /\ semaphore' = semaphore + 1
        /\ released' = [released EXCEPT ![t] = @ + 1]
        /\ outcome' = [outcome EXCEPT ![t] = ExtractionOutcome(event, req[t].markdown)]
        /\ IF x.result.raised
           THEN /\ pc' = [pc EXCEPT ![t] = "done"]
                /\ http' = [http EXCEPT ![t] = [status |-> 500]]
                /\ kg' = kg
           ELSE /\ pc' = [pc EXCEPT ![t] = "store"]
                /\ kg' = [kg EXCEPT ![t] = x.result.value]
                /\ http' = http
        /\ UNCHANGED <<req, vllm_client, graph, acquired, waited>>
        /\ UNCHANGED aside_vars

\* chunk mapping, _store_in_neo4j, and the 200 response
Store(t) ==
    LET r == MapAndStore(graph, req[t], kg[t])
    IN  /\ pc[t] = "store"
        /\ graph' = r.graph
        /\ http' = [http EXCEPT ![t] = [status |-> 200, body |-> r.result]]
        /\ pc' = [pc EXCEPT ![t] = "done"]
        /\ UNCHANGED <<req, kg, semaphore, metrics, vllm_client,
                       acquired, released, outcome, waited>>
        /\ UNCHANGED aside_vars

\* Cancel with a slot that is released by hand after the try block only
CancelKeepsSlot(t) ==
    /\ pc[t] \in {"ensure", "wait", "llm", "store"}
    /\ pc' = [pc EXCEPT ![t] = "cancelled"]
    /\ outcome' = [outcome EXCEPT ![t] = "cancelled"]
    /\ UNCHANGED <<semaphore, released>>
    /\ UNCHANGED <<req, kg, http, metrics, vllm_client, graph, acquired, waited>>
    /\ UNCHANGED aside_vars

\* the client disconnects: CancelledError is thrown into the coroutine at its
\* suspension point.  It is not an Exception, so no `except Exception` clause
\* runs; leaving the `async with` releases a held slot.
Cancel(t) ==
    /\ pc[t] \in {"ensure", "wait", "llm", "store"}
    /\ pc' = [pc EXCEPT ![t] = "cancelled"]
    /\ outcome' = [outcome EXCEPT ![t] = "cancelled"]
    /\ IF pc[t] = "llm"
       THEN /\ semaphore' = semaphore + 1
            /\ released' = [released EXCEPT ![t] = @ + 1]
       ELSE UNCHANGED <<semaphore, released>>
    /\ UNCHANGED <<req, kg, http, metrics, vllm_client, graph, acquired, waited>>
    /\ UNCHANGED aside_vars

\* the steps of the ingest path, for requests drawn from D and completions from E
NextOver(D, E) ==
    \/ \E t \in Requests, d \in D : Submit(t, d)
    \/ \E t \in Requests : EnsureModelReturns(t)
    \/ \E t \in Requests : Acquire(t)
    \/ \E t \in Requests, event \in E : CompletionEnds(t, event)
    \/ \E t \in Requests : Store(t)
    \/ \E t \in Requests : Cancel(t)

Next == NextOver(Docs, LLMEvents)

Spec == Init /\ [][Next]_vars

(***************************************************************************)
(* The same path under the event loop's scheduling: every coroutine that   *)
(* can run is run, and every completion request ends.  A client need not   *)
(* disconnect, so Cancel is not fair.                                      *)
(***************************************************************************)
LiveDocs == {DocB}

LiveEvents ==
    {[kind |-> "response", response |-> r] : r \in {RespEmpty, RespInvalid, RespNullText}}
    \cup {[kind |-> "timeout"]}

LiveNext == NextOver(LiveDocs, LiveEvents)

\* a step of some request other than its cancellation
Progress ==
    \E t \in Requests :
        \/ \E d \in LiveDocs : Submit(t, d)
        \/ EnsureModelReturns(t)
        \/ Acquire(t)
        \/ \E event \in LiveEvents : CompletionEnds(t, event)
        \/ Store(t)

Fairness == WF_vars(Progress)

FairSpec == Init /\ [][LiveNext]_vars /\ Fairness

(***************************************************************************)
(* ChunkMapper.map_entities_to_chunks called on its own: one entity, in    *)
(* the shapes the method reads, against one or two chunks that pass the    *)
(* ChunkMetadata validation.                                               *)
(***************************************************************************)
\* texts of 10, 12 and 30 characters
ChunkTexts == {"0123456789", "0123456789ab", "Neo4j is a Graph Database; a K"}

\* ChunkMetadata: vector_rowid > 0, chunk_index >= 0, char_start >= 0,
\* char_end > char_start, len(text) >= 10
MapperChunks ==
    {[vector_rowid |-> 1, chunk_index |-> 0, char_start |-> cs, char_end |-> ce,
      text |-> tx] :
        cs \in {0, 11}, ce \in {12, 29, 30}, tx \in ChunkTexts}

SecondChunks ==
    {[vector_rowid |-> 2, chunk_index |-> 1, char_start |-> 30, char_end |-> 50,
      text |-> tx] : tx \in {"0123456789", "0123456789abcdefghij"}}

MapperChunkLists ==
    {<<c>> : c \in MapperChunks}
    \cup {<<c, d>> : c \in MapperChunks, d \in SecondChunks}

\* an entity with an explicit occurrence list, one as the extractors emit it
\* ("start" / "end"), and one carrying "start_pos" / "end_pos"
MapperEntities ==
    {[text |-> "Neo4j", normalized |-> "neo4j",
      occurrences |-> <<[start |-> span[1], end |-> span[2]]>>] :
        span \in {sp \in {0, 2, 20, 25} \X {10, 11, 12, 40} : sp[1] < sp[2]}}
    \cup {[text |-> tx, normalized |-> Lower(tx), start |-> 20, end |-> 20 + Len(tx)] :
            tx \in {"Neo4j", "Knowledge Graph", "123456789", "0123456789"}}
    \cup {[text |-> "Knowledge Graph", normalized |-> "knowledge graph",
           start_pos |-> s, end_pos |-> s + 15] : s \in {0, 5, 20}}

InitMapper ==
    /\ InitPipeline
    /\ map_entity \in MapperEntities
    /\ map_chunks \in MapperChunkLists
    /\ map_result = <<>>
    /\ ServerUp
    /\ NoIngestLog
    /\ NoSearch
    /\ NoUnitCall

\* map_entities_to_chunks([entity], chunks)
CallMapper ==
    /\ map_result = <<>>
    /\ map_result' = MapEntitiesToChunks(<<map_entity>>, map_chunks)
    /\ UNCHANGED <<map_entity, map_chunks>>
    /\ UNCHANGED <<pipeline_vars, server_vars, unit_vars, log_vars, search_vars>>

SpecMapper == InitMapper /\ [][CallMapper]_vars

(***************************************************************************)
(* POST /api/v1/ingest from the JSON body on: the validation of            *)
(* IngestRequest, the kg_processor test of ingest_document, and the call    *)
(* of process_document.                                                    *)
(***************************************************************************)
\* url.startswith(('http://', 'https://'))
StartsWithHttp(url) ==
    CASE url = "https://example.com" -> TRUE
      [] url = "http://example.com" -> TRUE
      [] OTHER -> FALSE

\* the validator end_after_start of ChunkMetadata
EndAfterStart(c) == ~(c.char_end <= c.char_start)

\* ChunkMetadata: the Field constraints and end_after_start
ValidChunkMetadata(c) ==
    /\ c.vector_rowid > 0
    /\ c.chunk_index >= 0
    /\ c.char_start >= 0
    /\ c.char_end > 0
    /\ Len(c.text) >= 10 /\ Len(c.text) <= 10000
    /\ EndAfterStart(c)

\* ValidateChunksOrdered accepting two chunks of equal chunk_index
ValidateChunksOrderedLax(v) ==
    \A i \in 1..(Len(v) - 1) : ~(v[i].chunk_index > v[i + 1].chunk_index)

\* the validator validate_chunks_ordered of IngestRequest
ValidateChunksOrdered(v) ==
    \A i \in 1..(Len(v) - 1) : ~(v[i].chunk_index >= v[i + 1].chunk_index)

\* IngestRequest: the Field constraints and the validators
ValidIngestRequest(b) ==
    /\ b.content_id > 0
    /\ Len(b.url) <= 2048
    /\ StartsWithHttp(b.url)
    /\ Len(b.markdown) >= 50 /\ Len(b.markdown) <= 1000000
    /\ Len(b.chunks) >= 1 /\ Len(b.chunks) <= 1000
    /\ \A i \in DOMAIN b.chunks : ValidChunkMetadata(b.chunks[i])
    /\ ValidateChunksOrdered(b.chunks)

\* the `if not kg_processor: raise HTTPException(503)` at the top of the try
\* block of ingest_document
ProcessorCheck(initialized) ==
    IF initialized THEN Returned(TRUE) ELSE Raised([status_code |-> 503])

\* the `except Exception` clause of ingest_document: whatever was raised in the
\* try block, an HTTPException included, is answered with a 500
OnIngestError(error) == [status |-> 500]

\* the request is answered without process_document having been called
Respond(t, response) ==
    /\ pc' = [pc EXCEPT ![t] = "done"]
    /\ http' = [http EXCEPT ![t] = response]
    /\ UNCHANGED <<req, kg, semaphore, metrics, vllm_client, graph,
                   acquired, released, outcome, waited>>
    /\ UNCHANGED aside_vars

\* POST /api/v1/ingest with the body: 422 from the request validation, else
\* ingest_document up to the first suspension of process_document
PostIngest(t) ==
    /\ pc[t] = "new"
    /\ IF ~ValidIngestRequest(body) THEN Respond(t, [status |-> 422])
       ELSE IF ProcessorCheck(kg_processor).raised
       THEN Respond(t, OnIngestError(ProcessorCheck(kg_processor).error))
       ELSE Submit(t, body)

\* chunk objects of a JSON body, valid and not
RawChunks ==
    {[vector_rowid |-> r, chunk_index |-> i, char_start |-> span[1],
      char_end |-> span[2], text |-> tx] :
        r \in {1, 2}, i \in {0, 1},
        span \in {<<0, 30>>, <<25, 57>>, <<30, 30>>, <<30, 25>>},
        tx \in {"Test", "0123456789"}}

RawChunkLists ==
    {<<>>} \cup {<<c>> : c \in RawChunks} \cup {<<c, d>> : c, d \in RawChunks}

RawBodies ==
    {[content_id |-> id, url |-> u, markdown |-> md, chunks |-> cs] :
        id \in {0, 1}, u \in {"https://example.com", "example.com"},
        md \in {MdA, "Test content"}, cs \in RawChunkLists}

InitServer ==
    /\ InitPipeline
    /\ NoMapperCall
    /\ kg_processor \in BOOLEAN
    /\ body \in RawBodies
    /\ NoIngestLog
    /\ NoSearch
    /\ NoUnitCall

SpecServer == InitServer /\ [][PostIngest(1)]_vars

(***************************************************************************)
(* process_document called one document after another on one graph         *)
(***************************************************************************)
MaxIngests == 3

\* a second document that carries the vector_rowid of DocA's first chunk
DocShared ==
    [content_id |-> 4,
     markdown |-> MdB,
     chunks |-> <<[vector_rowid |-> 1, chunk_index |-> 0,
                   char_start |-> 0, char_end |-> 54,
                   text |-> MdB]>>]

GraphDocs == {DocA, DocB, DocShared}

\* a completion that states one relationship twice
RespDup ==
    [json |-> "object",
     entities |-> <<[text |-> "Neo4j", type |-> "Database", confidence |-> 60,
                     start |-> 0, end |-> 5],
                    [text |-> "Python", type |-> "Language", confidence |-> 50,
                     start |-> 0, end |-> 6]>>,
     relationships |-> <<[subject |-> "Neo4j", predicate |-> "Uses",
                          object |-> "Python", confidence |-> 70],
                         [subject |-> "Neo4j", predicate |-> "Uses",
                          object |-> "Python", confidence |-> 50]>>]

GraphResponses == {RespGood, RespDup}

InitGraph ==
    /\ InitPipeline
    /\ NoMapperCall
    /\ ServerUp
    /\ NoIngestLog
    /\ NoSearch
    /\ NoUnitCall

\* KGProcessor.process_document with no other call in flight: extraction,
\* chunk mapping and storage
ProcessDocument(request, response) ==
    LET extracted == TryExtraction([kind |-> "response", response |-> response],
                                   request.markdown).result.value
        stored == MapAndStore(graph, request, extracted)
    IN  /\ Len(ingests) < MaxIngests
        /\ graph' = stored.graph
        /\ ingests' = Append(ingests,
               [request |-> request, extracted |-> extracted, result |-> stored.result])
        /\ UNCHANGED <<pc, req, kg, http, semaphore, metrics, vllm_client,
                       acquired, released, outcome, waited>>
        /\ UNCHANGED <<co_calls, mapper_vars, server_vars, unit_vars, search_vars>>

NextGraph ==
    \/ \E request \in GraphDocs, response \in GraphResponses :
           ProcessDocument(request, response)

SpecGraph == InitGraph /\ [][NextGraph]_vars

(***************************************************************************)
(* update_co_occurrence called on the graph the ingests have built         *)
(***************************************************************************)
MaxCoOccurrenceCalls == 2

CoOccurrenceKeys == {"knowledge graph", "neo4j", "python"}

CoOccurrenceRowids == {1, 2}

\* one call of Neo4jClient.update_co_occurrence
UpdateCoOccurrenceCall(entity1, entity2, chunk_rowid) ==
    /\ Len(co_calls) < MaxCoOccurrenceCalls
    /\ graph' = UpdateCoOccurrence(graph, entity1, entity2, chunk_rowid)
    /\ co_calls' = Append(co_calls, <<entity1, entity2, chunk_rowid>>)
    /\ UNCHANGED <<pc, req, kg, http, semaphore, metrics, vllm_client,
                   acquired, released, outcome, waited>>
    /\ UNCHANGED <<ingests, mapper_vars, server_vars, unit_vars, search_vars>>

\* the graph after process_document has stored one more document
GraphAfter(g, request, response) ==
    MapAndStore(g, request,
                TryExtraction([kind |-> "response", response |-> response],
                              request.markdown).result.value).graph

\* the graph before any ingest, after one and after two
CoOccurrenceGraphs ==
    {EmptyGraph,
     GraphAfter(EmptyGraph, DocA, RespGood),
     GraphAfter(GraphAfter(EmptyGraph, DocA, RespGood), DocB, RespDup)}

InitCoOccurrence ==
    /\ IdleExtractor
    /\ graph \in CoOccurrenceGraphs
    /\ NoMapperCall
    /\ ServerUp
    /\ NoIngestLog
    /\ NoSearch
    /\ NoUnitCall

NextCoOccurrence ==
    \E entity1, entity2 \in CoOccurrenceKeys, chunk_rowid \in CoOccurrenceRowids :
        UpdateCoOccurrenceCall(entity1, entity2, chunk_rowid)

SpecCoOccurrence == InitCoOccurrence /\ [][NextCoOccurrence]_vars

(***************************************************************************)
(* api/enhanced_search.py: _score_and_rank_chunks and the cut to max_chunks *)
(* expansion_score is kept in tenths: 10, 8, 6, 4 for 1.0, 0.8, 0.6, 0.4   *)
(***************************************************************************)
\* ScoreSearchChunk with the top tier from one search entity on
ScoreSearchChunkFlat(search_entity_count) ==
    IF search_entity_count >= 1 THEN 10 ELSE 4

\* base_score of a chunk of search_chunks
ScoreSearchChunk(search_entity_count) ==
    IF search_entity_count >= 2 THEN 10
    ELSE IF search_entity_count = 1 THEN 6
    ELSE 4

\* base_score of a chunk of expanded_chunks
ScoreExpandedChunk(expanded_entity_count) ==
    IF expanded_entity_count > 3 THEN 8
    ELSE IF expanded_entity_count > 1 THEN 6
    ELSE 4

\* one iteration of either loop; st = [scored, chunk_dedup, raised]
ScoreOneChunk(st, chunk, kind) ==
    LET vector_rowid == Get(chunk, "vector_rowid", None)
        search_entity_count == Len(Get(chunk, "search_entities", <<>>))
        expanded_entity_count == Len(Get(chunk, "expanded_entities", <<>>))
    IN  IF DOMAIN chunk = {} \/ vector_rowid = None THEN st
        ELSE IF vector_rowid \in st.chunk_dedup THEN st
        ELSE IF ~IsStr(Get(chunk, "text", ""))
        THEN [st EXCEPT !.chunk_dedup = @ \cup {vector_rowid},
                        !.raised = TRUE]     \* None[:500]: TypeError
        ELSE [st EXCEPT
                !.chunk_dedup = @ \cup {vector_rowid},
                !.scored = Append(@,
                    IF kind = "search_term"
                    THEN [vector_rowid |-> vector_rowid,
                          expansion_score |-> ScoreSearchChunk(search_entity_count),
                          search_entity_count |-> search_entity_count,
                          expanded_entity_count |-> 0,
                          relationship_count |-> 0]
                    ELSE [vector_rowid |-> vector_rowid,
                          expansion_score |-> ScoreExpandedChunk(expanded_entity_count),
                          search_entity_count |-> 0,
                          expanded_entity_count |-> expanded_entity_count,
                          relationship_count |-> 0])]

RECURSIVE ScoreChunksFrom(_, _, _, _)
ScoreChunksFrom(chunks, i, kind, st) ==
    IF i > Len(chunks) \/ st.raised THEN st
    ELSE ScoreChunksFrom(chunks, i + 1, kind, ScoreOneChunk(st, chunks[i], kind))

\* SortByScore leaving the list as the loops appended it
AsAppended(scored) == scored

RECURSIVE SortByScore(_)
\* list.sort(key=expansion_score, reverse=True): stable, highest score first
SortByScore(scored) ==
    IF scored = <<>> THEN <<>>
    ELSE LET top == CHOOSE m \in {scored[i].expansion_score : i \in DOMAIN scored} :
                        \A i \in DOMAIN scored : scored[i].expansion_score <= m
         IN  SelectSeq(scored, LAMBDA c : c.expansion_score = top)
             \o SortByScore(SelectSeq(scored, LAMBDA c : c.expansion_score # top))

\* _score_and_rank_chunks
ScoreAndRankChunks(result) ==
    LET searched == ScoreChunksFrom(Get(result, "search_chunks", <<>>), 1, "search_term",
                        [scored |-> <<>>, chunk_dedup |-> {}, raised |-> FALSE])
        expanded == ScoreChunksFrom(Get(result, "expanded_chunks", <<>>), 1, "expanded",
                        searched)
    IN  IF expanded.raised THEN Raised("TypeError")
        ELSE Returned(SortByScore(expanded.scored))

\* scored_chunks[:max_chunks]
TopChunks(scored_chunks, max_chunks) ==
    SubSeq(scored_chunks, 1, Min(max_chunks, Len(scored_chunks)))

\* enhanced_kg_search from the query result on
EnhancedResponse(result, max_chunks) ==
    LET scored_chunks == ScoreAndRankChunks(result)
    IN  IF scored_chunks.raised THEN [status |-> 500]
        ELSE LET top_chunks == TopChunks(scored_chunks.value, max_chunks)
             IN  [status |-> 200,
                  chunks |-> top_chunks,
                  total_chunks |-> Len(top_chunks)]

MaxListed == 2

\* the first n of the names
FirstOf(names, n) == SubSeq(names, 1, n)

\* the maps the query collects into search_chunks_data
SearchChunkMaps ==
    {[vector_rowid |-> r, text |-> "chunk text",
      search_entities |-> FirstOf(<<"Neo4j", "Python">>, n)] :
        r \in {None, 1, 2}, n \in 0..2}
    \cup {[vector_rowid |-> 2, text |-> JsonNull, search_entities |-> <<"Neo4j">>]}

\* the maps the query collects into expanded_chunks_data
ExpandedChunkMaps ==
    {[vector_rowid |-> r, text |-> "chunk text",
      expanded_entities |-> FirstOf(<<"FastAPI", "Docker", "Redis", "SQLite">>, n)] :
        r \in {None, 1, 3}, n \in 1..4}
    \cup {[vector_rowid |-> 3, text |-> JsonNull, expanded_entities |-> <<"FastAPI">>]}

ListsOf(S) == UNION {[1..n -> S] : n \in 0..MaxListed}

MaxChunksValues == {1, 2, 3}

InitScore ==
    /\ InitPipeline
    /\ NoMapperCall
    /\ ServerUp
    /\ NoIngestLog
    /\ query_result \in [search_chunks : ListsOf(SearchChunkMaps),
                         expanded_chunks : ListsOf(ExpandedChunkMaps)]
    /\ search_request \in [endpoint : {"enhanced"}, max_chunks : MaxChunksValues]
    /\ search_response = <<>>
    /\ NoUnitCall

\* the query has answered: score, rank, cut and respond
RankQueryResult ==
    /\ search_response = <<>>
    /\ search_response' = <<EnhancedResponse(query_result, search_request.max_chunks)>>
    /\ UNCHANGED <<pipeline_vars, mapper_vars, server_vars, unit_vars, log_vars,
                   search_request, query_result>>

SpecScore == InitScore /\ [][RankQueryResult]_vars

(***************************************************************************)
(* The search endpoints on the graph the ingests have built                *)
(***************************************************************************)
\* the Chunk -> Document pairs joined by an edge of type PART_OF: the edges
\* the graph holds beside HAS_CHUNK, MENTIONED_IN and CO_OCCURS_WITH are those
\* create_relationship writes
PartOf(g) ==
    {<<c.id, d.id>> : <<c, d>> \in
        {x \in g.chunks \X g.documents :
            \E r \in g.relationships :
                r.rel_type = "PART_OF" /\ r.subject = x[1].id /\ r.object = x[2].id}}

\* the texts of the entities of es MENTIONED_IN the chunk c, in node order
MentionedTexts(g, es, c) ==
    LET ids == {e.id : e \in {x \in es :
                   \E m \in g.mentioned_in : m.entity_id = x.id /\ m.chunk_id = c.id}}
        order == SortedSeq(ids)
    IN  [i \in DOMAIN order |-> (CHOOSE e \in es : e.id = order[i]).text]

\* the chunks of cs as the maps of a collect(DISTINCT {...}), in node order;
\* Chunk nodes carry text_preview and no text, so text is null
CollectChunkMaps(g, cs, es, list_key) ==
    LET order == SortedSeq({c.id : c \in cs})
    IN  [i \in DOMAIN order |->
            LET c == CHOOSE x \in cs : x.id = order[i]
            IN  (list_key :> MentionedTexts(g, es, c))
                @@ [vector_rowid |-> c.vector_rowid, text |-> JsonNull]]

\* the map collected from a row whose OPTIONAL MATCH found no chunk
NullChunkMap(list_key) ==
    (list_key :> <<>>) @@ [vector_rowid |-> None, text |-> JsonNull]

\* _execute_enhanced_query, the query accepted by the server
ExecuteEnhancedQuery(g, search_terms) ==
    LET search_entities == {e \in g.entities : e.text \in Range(search_terms)}
        reached(es) == {c \in g.chunks :
                          /\ \E e \in es, m \in g.mentioned_in :
                                m.entity_id = e.id /\ m.chunk_id = c.id
                          /\ \E d \in g.documents : <<c.id, d.id>> \in PartOf(g)}
        search_chunks == reached(search_entities)
        cooccur == {e \in g.entities :
                      /\ e.text \notin Range(search_terms)
                      /\ \E c \in search_chunks, m \in g.mentioned_in :
                            m.entity_id = e.id /\ m.chunk_id = c.id}
        expanded_chunks == reached(cooccur)
    IN  IF search_entities = {} THEN NoQueryResult
        ELSE [search_chunks |->
                 IF search_chunks = {} THEN <<NullChunkMap("search_entities")>>
                 ELSE CollectChunkMaps(g, search_chunks, search_entities,
                                       "search_entities"),
              expanded_chunks |->
                 IF expanded_chunks = {} THEN <<NullChunkMap("expanded_entities")>>
                 ELSE CollectChunkMaps(g, expanded_chunks, cooccur,
                                       "expanded_entities")]

\* POST /api/v1/search/enhanced. The query nests collect() inside collect();
\* a server that rejects it makes session.run raise, and the handler answers 500
EnhancedKGSearch(search_term_entities, max_chunks, rejected) ==
    LET result == ExecuteEnhancedQuery(graph, search_term_entities)
    IN  /\ search_request' = [endpoint |-> "enhanced",
                              search_term_entities |-> search_term_entities,
                              max_chunks |-> max_chunks]
        /\ query_result' = IF rejected THEN NoQueryResult ELSE result
        /\ search_response' = <<IF rejected THEN [status |-> 500]
                                ELSE EnhancedResponse(result, max_chunks)>>
        /\ UNCHANGED <<pipeline_vars, mapper_vars, server_vars, unit_vars, log_vars>>

\* haystack CONTAINS needle, both in lower case
Contains(haystack, needle) ==
    \/ needle = haystack
    \/ needle = "graph" /\ haystack = "knowledge graph"
    \/ needle = "o" /\ haystack \in {"neo4j", "knowledge graph", "python"}

\* the orders of the nodes of es the server may return equal keys in
TieOrders(es) ==
    LET ids == {e.id : e \in es}
    IN  {f \in [1..Cardinality(ids) -> ids] :
            \A i, j \in DOMAIN f : f[i] = f[j] => i = j}

RECURSIVE OrderByMentions(_, _)
\* ORDER BY e.mention_count DESC, equal counts in the order of tie
OrderByMentions(es, tie) ==
    IF es = {} THEN <<>>
    ELSE LET Pos(e) == CHOOSE i \in DOMAIN tie : tie[i] = e.id
             first == CHOOSE e \in es : \A x \in es :
                          \/ x.mention_count < e.mention_count
                          \/ x.mention_count = e.mention_count /\ Pos(e) <= Pos(x)
         IN  <<first>> \o OrderByMentions(es \ {first}, tie)

\* the records of the query search_entities runs for one term
EntityRecords(g, term, limit, min_mentions, tie) ==
    LET matched == {e \in g.entities :
                      /\ \/ Contains(Lower(e.text), Lower(term))
                         \/ Contains(Lower(e.normalized), Lower(term))
                      /\ e.mention_count >= min_mentions}
        ordered == OrderByMentions(matched, tie)
        rows == SubSeq(ordered, 1, Min(limit, Len(ordered)))
    IN  [i \in DOMAIN rows |->
            [entity_id |-> rows[i].id,
             text |-> rows[i].text,
             normalized |-> rows[i].normalized,
             type_full |-> rows[i].type_full,
             mention_count |-> rows[i].mention_count,
             confidence |-> rows[i].avg_confidence]]

RECURSIVE AppendUnseen(_, _)
\* the loop over one term's records: append those whose entity_id is new
AppendUnseen(all_entities, records) ==
    IF records = <<>> THEN all_entities
    ELSE AppendUnseen(
             IF \E i \in DOMAIN all_entities :
                    all_entities[i].entity_id = Head(records).entity_id
             THEN all_entities ELSE Append(all_entities, Head(records)),
             Tail(records))

RECURSIVE SearchEntitiesFrom(_, _, _, _, _, _, _)
\* the loop over request.entity_terms
SearchEntitiesFrom(g, entity_terms, i, limit, min_mentions, tie, all_entities) ==
    IF i > Len(entity_terms) THEN all_entities
    ELSE SearchEntitiesFrom(g, entity_terms, i + 1, limit, min_mentions, tie,
             AppendUnseen(all_entities,
                          EntityRecords(g, entity_terms[i], limit, min_mentions, tie)))

\* POST /api/v1/search/entities
SearchEntities(entity_terms, limit, min_mentions, tie) ==
    LET all_entities == SearchEntitiesFrom(graph, entity_terms, 1, limit,
                                           min_mentions, tie, <<>>)
    IN  /\ search_request' = [endpoint |-> "entities",
                              entity_terms |-> entity_terms,
                              limit |-> limit,
                              min_mentions |-> min_mentions]
        /\ search_response' = <<[status |-> 200,
                                 entities |-> all_entities,
                                 total_found |-> Len(all_entities)]>>
        /\ UNCHANGED <<pipeline_vars, mapper_vars, server_vars, unit_vars, log_vars, query_result>>

\* the graph before any ingest and after one, two and three
SearchGraphs ==
    CoOccurrenceGraphs
    \cup {GraphAfter(GraphAfter(GraphAfter(EmptyGraph, DocA, RespGood), DocB, RespDup),
                     DocShared, RespDup)}

EnhancedTermLists == {<<"Knowledge Graph">>, <<"Neo4j", "Knowledge Graph">>, <<"FastAPI">>}

EntityTermLists == {<<"o">>, <<"neo4j">>, <<"python", "neo4j">>, <<"graph", "o">>}

InitSearch ==
    /\ IdleExtractor
    /\ graph \in SearchGraphs
    /\ NoMapperCall
    /\ ServerUp
    /\ NoIngestLog
    /\ NoSearch
    /\ NoUnitCall

NextSearch ==
    \/ \E terms \in EnhancedTermLists, max_chunks \in MaxChunksValues,
          rejected \in BOOLEAN :
           EnhancedKGSearch(terms, max_chunks, rejected)
    \/ \E terms \in EntityTermLists, limit \in {1, 50}, min_mentions \in {1, 2},
          tie \in TieOrders(graph.entities) :
           SearchEntities(terms, limit, min_mentions, tie)

SpecSearch == InitSearch /\ [][NextSearch]_vars

(***************************************************************************)
(* clients/vllm_client.py: ensure_model, reset_model_state, complete,      *)
(* called by coroutines that interleave at each await                      *)
(***************************************************************************)
\* seconds between two checks of a known model (VLLM_RETRY_INTERVAL counts 30)
retry_interval == 1

MaxClock == 3

MaxClientCalls == 3

\* should_check of ensure_model
ShouldCheck(state, current_time) ==
    \/ state.model_name = JsonNull
    \/ state.last_check = None
    \/ (current_time - state.last_check) > retry_interval

\* ResetModelState leaving the state as it is
KeepModelState(state) == state

\* reset_model_state
ResetModelState(state) == NoModel

\* the calls begun so far
BegunCalls == SelectSeq(client_log, LAMBDA ev : ev.event = "begin")

\* what follows ensure_model in a call of kind `kind` once it returned `available`
AfterEnsure(c, kind, available) ==
    IF kind = "complete" /\ available
    THEN [callers EXCEPT ![c].pc = "posting"]       \* client.post awaited
    ELSE [callers EXCEPT ![c] = IdleCaller]         \* returned, or ModelUnavailableError

\* ensure_model or complete is called: ensure_model up to its first await
BeginCall(c, kind) ==
    /\ callers[c].pc = "idle"
    /\ Len(BegunCalls) < MaxClientCalls
    /\ LET should_check == ShouldCheck(model_state, now)
       IN  /\ client_log' = Append(client_log,
                                   [event |-> "begin", discovers |-> should_check,
                                    time |-> now])
           /\ callers' = IF should_check
                         THEN [callers EXCEPT ![c] = [pc |-> "discovering",
                                                      kind |-> kind,
                                                      current_time |-> now]]
                         ELSE AfterEnsure(c, kind, model_state.is_available)
    /\ UNCHANGED <<model_state, now>>
    /\ UNCHANGED beside_client

\* get_model_name has returned: the rest of ensure_model
DiscoveryAnswers(c, name) ==
    /\ callers[c].pc = "discovering"
    /\ model_state' = [model_name |-> name,
                       last_check |-> callers[c].current_time,
                       is_available |-> name # JsonNull]
    /\ callers' = AfterEnsure(c, callers[c].kind, name # JsonNull)
    /\ client_log' = Append(client_log,
                            [event |-> "discovered", found |-> name # JsonNull])
    /\ UNCHANGED now
    /\ UNCHANGED beside_client

\* the completion request has ended: "ok", "http_error" (httpx.HTTPError) or
\* "error" (any other Exception raised while sending or decoding)
CompletionAnswers(c, ending) ==
    /\ callers[c].pc = "posting"
    /\ callers' = [callers EXCEPT ![c] = IdleCaller]
    /\ model_state' = IF ending = "ok" THEN model_state
                    ELSE ResetModelState(model_state)
    /\ client_log' = Append(client_log,
                            [event |-> IF ending = "ok" THEN "completed"
                                       ELSE "completion_failed"])
    /\ UNCHANGED now
    /\ UNCHANGED beside_client

\* a second passes
Tick ==
    /\ now < MaxClock
    /\ now' = now + 1
    /\ UNCHANGED <<model_state, callers, client_log>>
    /\ UNCHANGED beside_client

NextClient ==
    \/ \E c \in ClientCallers, kind \in {"ensure_model", "complete"} : BeginCall(c, kind)
    \/ \E c \in ClientCallers, name \in {JsonNull, "served-model"} :
           DiscoveryAnswers(c, name)
    \/ \E c \in ClientCallers, ending \in {"ok", "http_error", "error"} :
           CompletionAnswers(c, ending)
    \/ Tick

SpecClient == Init /\ [][NextClient]_vars

(***************************************************************************)
(* KGProcessor._store_in_neo4j, one awaited statement at a time            *)
(***************************************************************************)
MaxStores == 2

\* PhaseAfter with the relationship loop ahead of the entity loop
PhaseAfterSwapped(phase) ==
    CASE phase = "chunks" -> "relationships"
      [] phase = "relationships" -> "entities"
      [] OTHER -> "done"

\* the loop that follows a loop of _store_in_neo4j
PhaseAfter(phase) ==
    CASE phase = "chunks" -> "entities"
      [] phase = "entities" -> "relationships"
      [] OTHER -> "done"

RECURSIVE Settle(_)
\* from a loop head to the next awaited statement
Settle(st) ==
    CASE st.phase = "chunks" ->
           IF st.i > Len(st.chunks)
           THEN Settle([st EXCEPT !.phase = PhaseAfter("chunks"), !.i = 1]) ELSE st
      [] st.phase = "entities" ->
           IF st.i > Len(st.entities)
           THEN Settle([st EXCEPT !.phase = PhaseAfter("entities"), !.i = 1]) ELSE st
      [] st.phase = "mentions" ->
           LET appearances == Get(st.entities[st.i], "chunk_appearances", <<>>)
           IN  IF st.k > Len(appearances)
               THEN Settle([st EXCEPT !.phase = "entities", !.i = @ + 1])
               ELSE IF appearances[st.k].vector_rowid \notin DOMAIN st.chunk_node_map
               THEN Settle([st EXCEPT !.k = @ + 1])
               ELSE st
      [] st.phase = "relationships" ->
           IF st.i > Len(st.relationships)
           THEN Settle([st EXCEPT !.phase = PhaseAfter("relationships"), !.i = 1])
           ELSE st
      [] OTHER -> st

\* _store_in_neo4j is entered with the mapped extraction of a document:
\* create_document
StoreDocument(request, response) ==
    LET extracted == TryExtraction([kind |-> "response", response |-> response],
                                   request.markdown).result.value
        entities == MapEntitiesToChunks(extracted.entities, request.chunks)
        relationships == MapRelationshipsToChunks(extracted.relationships, entities,
                                                  request.chunks)
        w == CreateDocument(graph, request.content_id)
    IN  /\ store.phase \in {"idle", "done"}
        /\ store.stored < MaxStores
        /\ graph' = w.graph
        /\ store' = Settle([phase |-> "chunks",
                            stored |-> store.stored + 1,
                            before |-> graph,
                            content_id |-> request.content_id,
                            chunks |-> request.chunks,
                            entities |-> entities,
                            relationships |-> relationships,
                            i |-> 1, k |-> 1,
                            doc_node_id |-> w.node_id,
                            chunk_node_map |-> EmptyMap,
                            entity_node_id |-> None,
                            writes |-> <<[kind |-> "Document"]>>])
        /\ UNCHANGED <<pc, req, kg, http, semaphore, metrics, vllm_client,
                       acquired, released, outcome, waited>>
        /\ UNCHANGED beside_store

\* create_chunk for chunks[i]
StoreChunk ==
    /\ store.phase = "chunks"
    /\ LET chunk == store.chunks[store.i]
           w == CreateChunk(graph, store.doc_node_id, chunk)
       IN  /\ graph' = w.graph
           /\ store' = Settle([store EXCEPT
                  !.chunk_node_map = (chunk.vector_rowid :> w.node_id) @@ @,
                  !.i = @ + 1,
                  !.writes = Append(@, [kind |-> "Chunk",
                                        vector_rowid |-> chunk.vector_rowid])])
    /\ UNCHANGED <<pc, req, kg, http, semaphore, metrics, vllm_client,
                   acquired, released, outcome, waited>>
    /\ UNCHANGED beside_store

\* create_entity for entities[i]
StoreEntity ==
    /\ store.phase = "entities"
    /\ LET entity == store.entities[store.i]
           w == CreateEntity(graph, entity)
       IN  /\ graph' = w.graph
           /\ store' = Settle([store EXCEPT
                  !.phase = "mentions",
                  !.k = 1,
                  !.entity_node_id = w.node_id,
                  !.writes = Append(@, [kind |-> "Entity",
                                        normalized |-> entity.normalized])])
    /\ UNCHANGED <<pc, req, kg, http, semaphore, metrics, vllm_client,
                   acquired, released, outcome, waited>>
    /\ UNCHANGED beside_store

\* link_entity_to_chunk for appearance k of entities[i]
StoreMention ==
    /\ store.phase = "mentions"
    /\ LET entity == store.entities[store.i]
           appearance == entity.chunk_appearances[store.k]
       IN  /\ graph' = LinkEntityToChunk(graph, store.entity_node_id,
                           store.chunk_node_map[appearance.vector_rowid],
                           appearance, entity.confidence)
           /\ store' = Settle([store EXCEPT
                  !.k = @ + 1,
                  !.writes = Append(@, [kind |-> "MentionedIn",
                                        normalized |-> entity.normalized,
                                        vector_rowid |-> appearance.vector_rowid])])
    /\ UNCHANGED <<pc, req, kg, http, semaphore, metrics, vllm_client,
                   acquired, released, outcome, waited>>
    /\ UNCHANGED beside_store

\* create_relationship for relationships[i]
StoreRelationship ==
    /\ store.phase = "relationships"
    /\ LET rel == store.relationships[store.i]
       IN  /\ graph' = CreateRelationship(graph, rel)
           /\ store' = Settle([store EXCEPT
                  !.i = @ + 1,
                  !.writes = Append(@, [kind |-> "Relationship",
                                        subject_normalized |-> rel.subject_normalized,
                                        object_normalized |-> rel.object_normalized])])
    /\ UNCHANGED <<pc, req, kg, http, semaphore, metrics, vllm_client,
                   acquired, released, outcome, waited>>
    /\ UNCHANGED beside_store

NextStore ==
    \/ \E request \in GraphDocs, response \in GraphResponses :
           StoreDocument(request, response)
    \/ StoreChunk
    \/ StoreEntity
    \/ StoreMention
    \/ StoreRelationship

SpecStore == Init /\ [][NextStore]_vars

(***************************************************************************)
(* KGExtractor._heal_truncated_json on texts kept as sequences of          *)
(* characters; "x" stands for any character that is no brace, bracket or   *)
(* whitespace                                                              *)
(***************************************************************************)
MaxTextLen == 5

\* the texts of at most n characters over an alphabet
TextsOver(alphabet, n) == UNION {[1..m -> alphabet] : m \in 0..n}

Whitespace == {" ", "\n"}

\* str.count(ch)
CountOf(text, ch) == Cardinality({i \in DOMAIN text : text[i] = ch})

\* str.find(ch), positions from 0
FindChar(text, ch) ==
    IF \E i \in DOMAIN text : text[i] = ch
    THEN (CHOOSE i \in DOMAIN text :
              text[i] = ch /\ \A j \in 1..(i - 1) : text[j] # ch) - 1
    ELSE 0 - 1

\* str.rstrip()
RStrip(text) ==
    LET keep == {i \in DOMAIN text : text[i] \notin Whitespace}
    IN  IF keep = {} THEN <<>>
        ELSE SubSeq(text, 1, CHOOSE i \in keep : \A j \in keep : j <= i)

\* str.endswith(ch)
EndsWith(text, ch) == text # <<>> /\ text[Len(text)] = ch

\* '{"entities": [], "relationships": []}', the words between the brackets
\* kept whole
EmptyDocument ==
    <<"{", "\"entities\": ", "[", "]", ", \"relationships\": ", "[", "]", "}">>

\* the text repeated n times
Repeat(text, n) == [i \in 1..(n * Len(text)) |-> text[((i - 1) % Len(text)) + 1]]

\* the braces and brackets of the text are balanced in number
CountsBalance(text) ==
    /\ CountOf(text, "{") = CountOf(text, "}")
    /\ CountOf(text, "[") = CountOf(text, "]")

\* _heal_truncated_json
HealTruncatedJson(response) ==
    LET start_idx == FindChar(response, "{")
        stripped == RStrip(response)
        \* range(len(response) - 1, start_idx, -1), positions from 0
        closers == {i \in (start_idx + 1)..(Len(response) - 1) :
                       response[i + 1] \in {"}", "]"}}
        last_complete_idx == IF closers = {} THEN 0 - 1
                             ELSE CHOOSE i \in closers : \A j \in closers : j <= i
        truncated == SubSeq(response, 1, last_complete_idx + 1)
        missing_brackets == CountOf(truncated, "[") - CountOf(truncated, "]")
        missing_braces == CountOf(truncated, "{") - CountOf(truncated, "}")
        healed == truncated
                  \o (IF missing_brackets > 0
                      THEN Repeat(<<"\n", " ", " ", "]">>, missing_brackets) ELSE <<>>)
                  \o (IF missing_braces > 0
                      THEN Repeat(<<"\n", "}">>, missing_braces) ELSE <<>>)
    IN  IF start_idx = 0 - 1 THEN EmptyDocument
        ELSE IF EndsWith(stripped, "}") /\ CountsBalance(stripped) THEN response
        ELSE IF last_complete_idx = 0 - 1 THEN EmptyDocument
        ELSE IF ~CountsBalance(healed) THEN EmptyDocument
        ELSE healed

HealAlphabet == {"{", "}", "[", "]", "x"}

InitHeal ==
    /\ InitPipeline
    /\ NoMapperCall
    /\ ServerUp
    /\ NoIngestLog
    /\ NoSearch
    /\ NewClient
    /\ store = IdleStore
    /\ health = NoHealthCheck
    /\ initializer = NewProcessor
    /\ unit_call \in [fn : {"_heal_truncated_json"},
                      response : TextsOver(HealAlphabet, MaxTextLen),
                      returned : {FALSE}]

\* the healer is applied to the response
Heal ==
    /\ unit_call.fn = "_heal_truncated_json"
    /\ ~unit_call.returned
    /\ unit_call' = [fn |-> "_heal_truncated_json",
                     response |-> unit_call.response,
                     returned |-> TRUE,
                     result |-> HealTruncatedJson(unit_call.response)]
    /\ UNCHANGED beside_call

SpecHeal == InitHeal /\ [][Heal]_vars

(***************************************************************************)
(* KGExtractor._sanitize_escape_sequences on texts kept as sequences of    *)
(* characters: backslash, double quote, "u", the hex digit "0" and "q",    *)
(* a character that is neither an escape character nor a hex digit         *)
(***************************************************************************)
MaxEscapeLen == 6

BackSlash == "\\"

Quote == "\""

HexDigits == {"0"}

\* the number of hex digits the text holds from position i on, in a row
RECURSIVE HexRun(_, _)
HexRun(text, i) ==
    IF i <= Len(text) /\ text[i] \in HexDigits THEN 1 + HexRun(text, i + 1) ELSE 0

RECURSIVE FixTruncatedUnicodeFrom(_, _)
\* re.sub(r'\\u([0-9a-fA-F]{0,3})(?![0-9a-fA-F])', r'\\\\u\1', text)
FixTruncatedUnicodeFrom(text, i) ==
    IF i > Len(text) THEN <<>>
    ELSE IF /\ text[i] = BackSlash
            /\ i < Len(text)
            /\ text[i + 1] = "u"
            /\ HexRun(text, i + 2) <= 3
    THEN <<BackSlash, BackSlash, "u">>
         \o SubSeq(text, i + 2, i + 1 + HexRun(text, i + 2))
         \o FixTruncatedUnicodeFrom(text, i + 2 + HexRun(text, i + 2))
    ELSE <<text[i]>> \o FixTruncatedUnicodeFrom(text, i + 1)

RECURSIVE ReplaceFrom(_, _, _, _)
\* str.replace(old, new): leftmost occurrences, not overlapping
ReplaceFrom(text, i, old, new) ==
    IF i > Len(text) THEN <<>>
    ELSE IF i + Len(old) - 1 <= Len(text) /\ SubSeq(text, i, i + Len(old) - 1) = old
    THEN new \o ReplaceFrom(text, i + Len(old), old, new)
    ELSE <<text[i]>> \o ReplaceFrom(text, i + 1, old, new)

Replace(text, old, new) == ReplaceFrom(text, 1, old, new)

\* the escapes protected by a marker, in the order of the replace calls
ProtectedEscapes ==
    <<[escape |-> <<BackSlash, Quote>>, marker |-> <<"___QUOTE___">>],
      [escape |-> <<BackSlash, BackSlash>>, marker |-> <<"___BACKSLASH___">>],
      [escape |-> <<BackSlash, "u", "0", "0", "0", "0">>,
       marker |-> <<"___UNICODE0000___">>]>>

RECURSIVE ProtectFrom(_, _)
ProtectFrom(text, n) ==
    IF n > Len(ProtectedEscapes) THEN text
    ELSE ProtectFrom(Replace(text, ProtectedEscapes[n].escape,
                             ProtectedEscapes[n].marker), n + 1)

RECURSIVE RestoreFrom(_, _)
RestoreFrom(text, n) ==
    IF n > Len(ProtectedEscapes) THEN text
    ELSE RestoreFrom(Replace(text, ProtectedEscapes[n].marker,
                             ProtectedEscapes[n].escape), n + 1)

\* one pass of the loop
SanitizePass(text) ==
    LET fixed == FixTruncatedUnicodeFrom(text, 1)
        protected == ProtectFrom(fixed, 1)
        doubled == Replace(protected, <<BackSlash>>, <<BackSlash, BackSlash>>)
    IN  RestoreFrom(doubled, 1)

RECURSIVE SanitizeFrom(_, _)
\* for pass_num in range(max_passes), left when a pass changes nothing
SanitizeFrom(text, pass_num) ==
    IF pass_num >= 3 THEN text
    ELSE LET after == SanitizePass(text)
         IN  IF after = text THEN text ELSE SanitizeFrom(after, pass_num + 1)

\* _sanitize_escape_sequences
SanitizeEscapeSequences(text) == SanitizeFrom(text, 0)

EscapeAlphabet == {BackSlash, Quote, "u", "0", "q"}

InitSanitize ==
    /\ InitPipeline
    /\ NoMapperCall
    /\ ServerUp
    /\ NoIngestLog
    /\ NoSearch
    /\ NewClient
    /\ store = IdleStore
    /\ health = NoHealthCheck
    /\ initializer = NewProcessor
    /\ unit_call \in [fn : {"_sanitize_escape_sequences"},
                      text : TextsOver(EscapeAlphabet, MaxEscapeLen),
                      returned : {FALSE}]

\* the sanitizer is applied to the text
Sanitize ==
    /\ unit_call.fn = "_sanitize_escape_sequences"
    /\ ~unit_call.returned
    /\ unit_call' = [fn |-> "_sanitize_escape_sequences",
                     text |-> unit_call.text,
                     returned |-> TRUE,
                     result |-> SanitizeEscapeSequences(unit_call.text)]
    /\ UNCHANGED beside_call

SpecSanitize == InitSanitize /\ [][Sanitize]_vars

(***************************************************************************)
(* ChunkMapper.map_relationships_to_chunks called with one relationship    *)
(* between two entities whose chunk appearances are given                  *)
(***************************************************************************)
MaxPrimaryChunks == 3

PrimaryRowids == 1..MaxPrimaryChunks

\* the chunk lists: vector_rowids 1..n in order, chunk_index any arrangement
\* of 0..n-1
PrimaryChunkLists ==
    {[r \in PrimaryRowids |->
          [vector_rowid |-> r, chunk_index |-> index[r], char_start |-> 0,
           char_end |-> 10, text |-> "0123456789"]] :
        index \in {f \in [PrimaryRowids -> 0..(MaxPrimaryChunks - 1)] :
                      \A x, y \in PrimaryRowids : x # y => f[x] # f[y]}}

\* chunk_appearances: each chunk at most once, in any order
AppearanceLists ==
    {[i \in DOMAIN rowids |-> [vector_rowid |-> rowids[i], chunk_index |-> 0]] :
        rowids \in {q \in UNION {[1..n -> PrimaryRowids] : n \in 0..MaxPrimaryChunks} :
                       \A x, y \in DOMAIN q : x # y => q[x] # q[y]}}

PrimaryRelationship ==
    [subject_text |-> "Neo4j", subject_normalized |-> "neo4j",
     object_text |-> "Graph", object_normalized |-> "graph"]

InitPrimary ==
    /\ InitPipeline
    /\ NoMapperCall
    /\ ServerUp
    /\ NoIngestLog
    /\ NoSearch
    /\ NewClient
    /\ store = IdleStore
    /\ health = NoHealthCheck
    /\ initializer = NewProcessor
    /\ unit_call \in [fn : {"map_relationships_to_chunks"},
                      subject : AppearanceLists,
                      object : AppearanceLists,
                      chunks : PrimaryChunkLists,
                      returned : {FALSE}]

\* map_relationships_to_chunks([relationship], [subject, object], chunks)
MapRelationship ==
    /\ unit_call.fn = "map_relationships_to_chunks"
    /\ ~unit_call.returned
    /\ unit_call' =
          [fn |-> "map_relationships_to_chunks",
           subject |-> unit_call.subject,
           object |-> unit_call.object,
           chunks |-> unit_call.chunks,
           returned |-> TRUE,
           result |-> MapRelationshipsToChunks(
               <<PrimaryRelationship>>,
               <<[text |-> "Neo4j", normalized |-> "neo4j",
                  chunk_appearances |-> unit_call.subject],
                 [text |-> "Graph", normalized |-> "graph",
                  chunk_appearances |-> unit_call.object]>>,
               unit_call.chunks)]
    /\ UNCHANGED beside_call

SpecPrimary == InitPrimary /\ [][MapRelationship]_vars

(***************************************************************************)
(* EntityExtractor: the splitting of a long text before entity recognition *)
(*                                                                         *)
(* A text is a sequence of runs [ch, n]: the character ch written n times. *)
(***************************************************************************)
MaxWords == 4

\* len(text)
TextLength(text) == IF text = <<>> THEN 0
                    ELSE LET RECURSIVE Total(_)
                             Total(i) == IF i > Len(text) THEN 0
                                         ELSE text[i].n + Total(i + 1)
                         IN  Total(1)

RECURSIVE SplitFrom(_, _, _, _)
\* text.split(): the words between runs of whitespace
SplitFrom(text, i, word, words) ==
    IF i > Len(text) THEN (IF word = <<>> THEN words ELSE Append(words, word))
    ELSE IF text[i].ch \in Whitespace
    THEN SplitFrom(text, i + 1, <<>>,
                   IF word = <<>> THEN words ELSE Append(words, word))
    ELSE SplitFrom(text, i + 1, Append(word, text[i]), words)

RECURSIVE Join(_)
\* ' '.join(words)
Join(words) ==
    IF words = <<>> THEN <<>>
    ELSE IF Len(words) = 1 THEN words[1]
    ELSE words[1] \o <<[ch |-> " ", n |-> 1]>> \o Join(Tail(words))

\* chunks.append({"text": chunk_text, "char_start": ..., "char_end": ...})
SegmentOf(current_chunk, char_position) ==
    [text |-> Join(current_chunk),
     char_start |-> char_position,
     char_end |-> char_position + TextLength(Join(current_chunk))]

RECURSIVE ChunkWordsFrom(_, _, _, _)
\* the loop over the words of _chunk_text_for_gliner
ChunkWordsFrom(words, i, max_chars, st) ==
    IF i > Len(words)
    THEN (IF st.current_chunk # <<>>
          THEN Append(st.chunks, SegmentOf(st.current_chunk, st.char_position))
          ELSE st.chunks)
    ELSE
      LET word_len == TextLength(words[i]) + 1
      IN  ChunkWordsFrom(words, i + 1, max_chars,
            IF st.current_length + word_len > max_chars /\ st.current_chunk # <<>>
            THEN [chunks |-> Append(st.chunks,
                                    SegmentOf(st.current_chunk, st.char_position)),
                  char_position |-> st.char_position
                                    + TextLength(Join(st.current_chunk)) + 1,
                  current_chunk |-> <<words[i]>>,
                  current_length |-> word_len]
            ELSE [chunks |-> st.chunks,
                  char_position |-> st.char_position,
                  current_chunk |-> Append(st.current_chunk, words[i]),
                  current_length |-> st.current_length + word_len])

\* EntityExtractor._chunk_text_for_gliner
ChunkTextForGliner(text, max_chars) ==
    ChunkWordsFrom(SplitFrom(text, 1, <<>>, <<>>), 1, max_chars,
                   [chunks |-> <<>>, char_position |-> 0,
                    current_chunk |-> <<>>, current_length |-> 0])

\* the texts EntityExtractor.extract hands to the model, with the offset it
\* adds to each prediction
GlinerSegments(text) ==
    IF TextLength(text) > 1500 THEN ChunkTextForGliner(text, 1000)
    ELSE <<[text |-> text, char_start |-> 0, char_end |-> TextLength(text)]>>

WordLengths == {400, 700}

Separators == {<<[ch |-> " ", n |-> 1]>>, <<[ch |-> " ", n |-> 2]>>,
               <<[ch |-> "\n", n |-> 1]>>}

RECURSIVE Interleave(_, _, _)
\* word 1, separator 1, word 2, ... , the last word
Interleave(lengths, seps, i) ==
    IF i > Len(lengths) THEN <<>>
    ELSE <<[ch |-> IF i % 2 = 1 THEN "a" ELSE "b", n |-> lengths[i]]>>
         \o (IF i < Len(lengths) THEN seps[i] ELSE <<>>)
         \o Interleave(lengths, seps, i + 1)

\* texts of 2..MaxWords words, with or without a leading space
LongTexts ==
    UNION {{lead \o Interleave(lengths, seps, 1) :
                lengths \in [1..w -> WordLengths],
                seps \in [1..(w - 1) -> Separators],
                lead \in {<<>>, <<[ch |-> " ", n |-> 1]>>}} : w \in 2..MaxWords}

InitExtract ==
    /\ InitPipeline
    /\ NoMapperCall
    /\ ServerUp
    /\ NoIngestLog
    /\ NoSearch
    /\ NewClient
    /\ store = IdleStore
    /\ health = NoHealthCheck
    /\ initializer = NewProcessor
    /\ unit_call \in [fn : {"extract"}, text : LongTexts, returned : {FALSE}]

\* extract up to the texts it gives the model
ExtractEntities ==
    /\ unit_call.fn = "extract"
    /\ ~unit_call.returned
    /\ unit_call' = [fn |-> "extract",
                     text |-> unit_call.text,
                     returned |-> TRUE,
                     gliner_chunks |-> GlinerSegments(unit_call.text)]
    /\ UNCHANGED beside_call

SpecExtract == InitExtract /\ [][ExtractEntities]_vars

(***************************************************************************)
(* The health checks of KGServiceClient (wrapped by backoff.on_exception)  *)
(* and of VLLMClient                                                       *)
(***************************************************************************)
MaxHealthRequests == 3

max_tries == 3

\* the exception types backoff.on_exception is given
RetriedExceptions == {"httpx.RequestError", "httpx.HTTPStatusError"}

\* what the body of KGServiceClient.health_check raises for a failed request:
\* both except clauses raise KGServiceUnavailable
HealthCheckRaises(answer) ==
    IF answer = "request_error" THEN "KGServiceUnavailable"
    ELSE IF answer = "http_error" THEN "KGServiceUnavailable"
    ELSE "none"

\* backoff.on_exception calls the function again
BackoffRetries(exception, tries) ==
    exception \in RetriedExceptions /\ tries < max_tries

\* health_check is called on one of the clients
HealthCheck(client) ==
    /\ health.pc \in {"idle", "returned", "raised"}
    /\ Len(health.log) < MaxHealthRequests
    /\ health' = [pc |-> "requesting", client |-> client, tries |-> 1,
                  log |-> health.log]
    /\ UNCHANGED beside_health

\* GET /health answers, fails in transport, or answers with an error status
HealthResponds(answer) ==
    /\ health.pc = "requesting"
    /\ LET logged == Append(health.log,
                            [client |-> health.client, outcome |-> answer,
                             attempt |-> health.tries])
       IN  IF health.client = "VLLMClient"
           THEN health' = [pc |-> "returned", client |-> health.client,
                           tries |-> health.tries, log |-> logged,
                           result |-> IF answer = "ok" THEN "True" ELSE "False"]
           ELSE IF answer = "ok"
           THEN health' = [pc |-> "returned", client |-> health.client,
                           tries |-> health.tries, log |-> logged,
                           result |-> "json"]
           ELSE IF BackoffRetries(HealthCheckRaises(answer), health.tries)
           THEN health' = [pc |-> "requesting", client |-> health.client,
                           tries |-> health.tries + 1, log |-> logged]
           ELSE health' = [pc |-> "raised", client |-> health.client,
                           tries |-> health.tries, log |-> logged,
                           result |-> HealthCheckRaises(answer)]
    /\ UNCHANGED beside_health

NextHealth ==
    \/ \E client \in {"KGServiceClient", "VLLMClient"} : HealthCheck(client)
    \/ \E answer \in {"ok", "request_error", "http_error"} : HealthResponds(answer)

SpecHealth == Init /\ [][NextHealth]_vars

(***************************************************************************)
(* KGProcessor.initialize, called directly and by process_document, and    *)
(* shutdown.  successes counts the bodies that ran to the end since        *)
(* construction or the last shutdown.                                      *)
(***************************************************************************)
MaxInitializeCalls == 4

MaxShutdowns == 1

\* the lock taken whether it is held or not
AcquireAnyway(lock) == TRUE

\* async with self._init_lock: the lock can be taken when nobody holds it
CanAcquire(lock) == lock = 0

\* the lock is taken and _initialized tested, without an await in between
Entered(c, call) ==
    LET mine == [call EXCEPT !.after_success = initializer.successes > 0]
    IN  IF initializer.initialized
        THEN [initializer EXCEPT
                 !.calls[c] = [mine EXCEPT !.pc = "done", !.result = "True"]]
        ELSE [initializer EXCEPT
                 !.lock = c,
                 !.calls[c] = [mine EXCEPT !.pc = "connecting"]]

\* initialize() is called, directly or by process_document when it reads
\* _initialized as false
InitializeCalled(c, kind) ==
    /\ initializer.calls[c].pc \in {"idle", "done"}
    /\ initializer.started < MaxInitializeCalls
    /\ LET call == [NoInitializeCall EXCEPT !.kind = kind]
           counted == [initializer EXCEPT !.started = @ + 1]
       IN  IF kind = "process_document" /\ initializer.initialized
           THEN initializer' = [counted EXCEPT
                    !.calls[c] = [call EXCEPT !.pc = "done", !.result = "not called",
                                              !.after_success = initializer.successes > 0]]
           ELSE IF CanAcquire(initializer.lock)
           THEN initializer' =
                    [Entered(c, call) EXCEPT !.started = initializer.started + 1]
           ELSE initializer' = [counted EXCEPT
                    !.calls[c] = [call EXCEPT !.pc = "waiting", !.waited = TRUE]]
    /\ UNCHANGED beside_init

\* a waiting call gets the lock
LockAcquired(c) ==
    /\ initializer.calls[c].pc = "waiting"
    /\ CanAcquire(initializer.lock)
    /\ initializer' = Entered(c, initializer.calls[c])
    /\ UNCHANGED beside_init

\* neo4j_client.connect() returns or raises
ConnectAnswers(c, answer) ==
    /\ initializer.calls[c].pc = "connecting"
    /\ IF answer = "connected"
       THEN initializer' = [initializer EXCEPT
                !.calls[c].pc = "schema", !.calls[c].connected = TRUE]
       ELSE initializer' = [initializer EXCEPT
                !.lock = IF @ = c THEN 0 ELSE @,
                !.calls[c].pc = "done",
                !.calls[c].connected = TRUE,
                !.calls[c].result = "False"]
    /\ UNCHANGED beside_init

\* initialize_graph_schema returns or raises
SchemaAnswers(c, answer) ==
    /\ initializer.calls[c].pc = "schema"
    /\ IF answer = "ok"
       THEN initializer' = [initializer EXCEPT
                !.initialized = TRUE,
                !.successes = @ + 1,
                !.lock = IF @ = c THEN 0 ELSE @,
                !.calls[c].pc = "done",
                !.calls[c].result = "True"]
       ELSE initializer' = [initializer EXCEPT
                !.lock = IF @ = c THEN 0 ELSE @,
                !.calls[c].pc = "done",
                !.calls[c].result = "False"]
    /\ UNCHANGED beside_init

\* shutdown: self._initialized = False
Shutdown ==
    /\ initializer.shutdowns < MaxShutdowns
    /\ initializer' = [initializer EXCEPT
           !.initialized = FALSE, !.successes = 0, !.shutdowns = @ + 1]
    /\ UNCHANGED beside_init

NextInitialize ==
    \/ \E c \in ProcessorCallers, kind \in {"initialize", "process_document"} :
          InitializeCalled(c, kind)
    \/ \E c \in ProcessorCallers : LockAcquired(c)
    \/ \E c \in ProcessorCallers, answer \in {"connected", "refused", "exception"} :
          ConnectAnswers(c, answer)
    \/ \E c \in ProcessorCallers, answer \in {"ok", "exception"} :
          SchemaAnswers(c, answer)
    \/ Shutdown

SpecInitialize == Init /\ [][NextInitialize]_vars

(***************************************************************************)
(* Properties                                                              *)
(***************************************************************************)
Finished(t) == pc[t] \in {"done", "cancelled"}

InExtractKG(t) == pc[t] \in {"ensure", "wait", "llm"}

\* C1: in every reachable state the active_extractions counter reported by
\* get_metrics is between 0 and max_concurrent, i.e. slots_available >= 0,
\* whatever the outcome of the calls (success, exception, cancellation).
C1_ActiveWithinLimit ==
    /\ GetMetrics(metrics).active_extractions >= 0
    /\ GetMetrics(metrics).active_extractions <= GetMetrics(metrics).max_concurrent
    /\ GetMetrics(metrics).slots_available >= 0

\* C2: every extract_kg call that acquires a slot releases it exactly once on
\* every exit path (success, exception, cancellation): a call holds its one slot
\* exactly while it awaits the completion, the free slots are those not held,
\* and when no call is in flight all max_concurrent slots are free.
C2_SlotReleasedOnEveryExit ==
    /\ \A t \in Requests :
          /\ acquired[t] <= 1
          /\ released[t] = (IF pc[t] = "llm" THEN 0 ELSE acquired[t])
          /\ pc[t] = "llm" => acquired[t] = 1
    /\ semaphore = MAX_CONCURRENT_EXTRACTIONS
                     - Cardinality({t \in Requests : acquired[t] > released[t]})
    /\ (\A t \in Requests : ~InExtractKG(t)) => semaphore = MAX_CONCURRENT_EXTRACTIONS

\* C2 witness: all calls are over; one was cancelled while holding its slot, one
\* ended in an LLM exception and one parsed its response, each having released.
C2_Witness ==
    /\ \A t \in Requests : Finished(t)
    /\ \E t \in Requests : outcome[t] = "cancelled" /\ acquired[t] = 1 /\ released[t] = 1
    /\ \E t \in Requests : outcome[t] = "timeout" /\ released[t] = 1
    /\ \E t \in Requests : outcome[t] = "parsed" /\ released[t] = 1
    /\ semaphore = MAX_CONCURRENT_EXTRACTIONS

\* every call ran on non-empty text and got a response from the LLM
AllGotResponse ==
    \A t \in Requests : outcome[t] \in {"parsed", "undecodable", "parse_raised"}

AllCompletedCounters ==
    /\ metrics.total_queued = NumRequests
    /\ metrics.total_completed = NumRequests
    /\ metrics.total_failed = 0
    /\ metrics.active_extractions = 0

\* C3: with more concurrent calls than slots, all on non-empty text and all
\* getting a response from the LLM, once every call has returned the counters
\* are total_queued = total_completed = N, total_failed = 0 and
\* active_extractions = 0.
C3_AllCompleteOnResponse ==
    ((\A t \in Requests : Finished(t)) /\ AllGotResponse) => AllCompletedCounters

\* under fair scheduling every call eventually returns or is cancelled: no
\* caller waits for a slot for ever
EveryCallReturns == <>(\A t \in Requests : Finished(t))

(***************************************************************************)
(* Re-ingest                                                               *)
(***************************************************************************)
\* the numbers of nodes and edges of each kind
GraphCounts(g) ==
    [documents |-> Cardinality(g.documents),
     chunks |-> Cardinality(g.chunks),
     entities |-> Cardinality(g.entities),
     has_chunk |-> Cardinality(g.has_chunk),
     mentioned_in |-> Cardinality(g.mentioned_in),
     relationships |-> Cardinality(g.relationships)]

\* request t is about to store a document that request u stored before it, with
\* the same content_id, chunks, entities and relationships
ReIngests(t, u) ==
    /\ u # t
    /\ pc[t] = "store"
    /\ pc[u] = "done"
    /\ http[u].status = 200
    /\ req[u] = req[t]
    /\ kg[u] = kg[t]

\* C4: the step that stores a document a second time (same content_id, same
\* chunks, same extracted entities and relationships) leaves the numbers of
\* Document, Chunk and Entity nodes and of HAS_CHUNK, MENTIONED_IN and semantic
\* relationship edges as they were.
C4_ReIngestKeepsCounts ==
    [][\A t \in Requests :
          (pc'[t] = "done" /\ \E u \in Requests : ReIngests(t, u))
              => GraphCounts(graph') = GraphCounts(graph)]_vars

\* C4 witness: a document with entities and a relationship was stored twice;
\* the second store found and updated the nodes and edges of the first.
C4_Witness ==
    \E t, u \in Requests :
        /\ t # u
        /\ pc[t] = "done" /\ pc[u] = "done"
        /\ http[t].status = 200 /\ http[u].status = 200
        /\ req[t] = req[u] /\ kg[t] = kg[u]
        /\ Len(kg[t].entities) >= 2 /\ Len(kg[t].relationships) >= 1
        /\ Len(req[t].chunks) >= 2
        /\ GraphCounts(graph).documents = 1
        /\ GraphCounts(graph).chunks = Len(req[t].chunks)
        /\ GraphCounts(graph).entities = Len(kg[t].entities)
        /\ GraphCounts(graph).mentioned_in >= 1
        /\ \E e \in graph.entities : e.mention_count = 2
        /\ \E r \in graph.relationships : r.occurrence_count = 2

(***************************************************************************)
(* Entities and the chunks they are found in                               *)
(***************************************************************************)
RequestRowids(t) == {c.vector_rowid : c \in Range(req[t].chunks)}

\* C5: after an ingest completes, every entity it reports as extracted is
\* returned by search_chunks(entity_names = [e]) in at least one chunk of the
\* ingested document.
C5_ExtractedEntityIsSearchable ==
    \A t \in Requests :
        (pc[t] = "done" /\ http[t].status = 200) =>
            \A i \in DOMAIN http[t].body.entities :
                SearchChunks(graph, {http[t].body.entities[i].text})
                    \cap RequestRowids(t) # {}

\* the chunk of the mapped list an appearance refers to
ChunksOfAppearance(a) ==
    {c \in Range(map_chunks) :
        c.vector_rowid = a.vector_rowid /\ c.chunk_index = a.chunk_index}

\* C6: every chunk appearance produced by map_entities_to_chunks, for any
\* entity occurrence and any valid chunk, has
\* 0 <= offset_start < offset_end <= len(chunk.text).
C6_OffsetsWithinChunk ==
    \A i \in DOMAIN map_result :
        \A a \in Range(map_result[i].chunk_appearances) :
            \A c \in ChunksOfAppearance(a) :
                /\ 0 <= a.offset_start
                /\ a.offset_start < a.offset_end
                /\ a.offset_end <= Len(c.text)

\* the overlap of the claim, written out: max(0, min(end, char_end) - max(start, char_start))
OverlapOf(occurrence, chunk) ==
    LET lo == IF occurrence.start > chunk.char_start
              THEN occurrence.start ELSE chunk.char_start
        hi == IF occurrence.end < chunk.char_end
              THEN occurrence.end ELSE chunk.char_end
    IN  IF hi - lo > 0 THEN hi - lo ELSE 0

HasAppearanceIn(entity, chunk) ==
    \E a \in Range(entity.chunk_appearances) :
        a.vector_rowid = chunk.vector_rowid /\ a.chunk_index = chunk.chunk_index

\* C7: for an entity occurrence (start, end) and a chunk (char_start, char_end),
\* map_entities_to_chunks records an appearance of the entity in the chunk if
\* and only if max(0, min(end, char_end) - max(start, char_start)) >= 10; an
\* overlap of 9 gives none and an overlap of 10 gives one.
C7_AppearanceIffOverlapTen ==
    map_result # <<>> =>
        \A occurrence \in Range(EntityOccurrences(map_entity)) :
            \A c \in Range(map_chunks) :
                HasAppearanceIn(map_result[1], c) <=> OverlapOf(occurrence, c) >= 10

\* C7 witness: one occurrence mapped against a chunk it overlaps by exactly 9
\* characters, where it has no appearance, and one it overlaps by exactly 10,
\* where it has one.
C7_Witness ==
    /\ map_result # <<>>
    /\ \E occurrence \in Range(EntityOccurrences(map_entity)) :
          /\ \E c \in Range(map_chunks) :
                OverlapOf(occurrence, c) = 9 /\ ~HasAppearanceIn(map_result[1], c)
          /\ \E c \in Range(map_chunks) :
                OverlapOf(occurrence, c) = 10 /\ HasAppearanceIn(map_result[1], c)

(***************************************************************************)
(* Failures of the extraction                                              *)
(***************************************************************************)
\* the completion call or the parser raised
ExtractionRaised(t) ==
    outcome[t] \in {"timeout", "unavailable", "bad_payload", "parse_raised"}

\* C8: extract_kg never propagates an exception of the LLM completion call or
\* of response parsing: it returns ([], []) to process_document, which
\* therefore never answers 500 on its account.
C8_ExtractKGReturnsEmptyOnError ==
    \A t \in Requests :
        ExtractionRaised(t) => (kg[t] = EmptyKG /\ http[t].status # 500)

\* C8 witness: one call whose completion raised and one whose parsing raised
\* have both returned ([], []).
C8_Witness ==
    /\ \E t \in Requests : outcome[t] = "bad_payload" /\ kg[t] = EmptyKG
    /\ \E t \in Requests : outcome[t] = "parse_raised" /\ kg[t] = EmptyKG
    /\ \E t \in Requests : outcome[t] = "unavailable" /\ kg[t] = EmptyKG

\* the Document node of request t and a Chunk node under it for each of its chunks
DocumentAndChunksWritten(t) ==
    \E d \in graph.documents :
        /\ d.content_id = req[t].content_id
        /\ d.id = http[t].body.neo4j_document_id
        /\ \A rowid \in RequestRowids(t) :
              \E c \in graph.chunks :
                  c.vector_rowid = rowid /\ <<d.id, c.id>> \in graph.has_chunk

\* C9: when extraction yields zero entities (also because the LLM was
\* unavailable or its output unparseable), the ingest still writes the Document
\* node and a Chunk node per input chunk and answers success with empty
\* entities and relationships and both counts 0.
C9_EmptyExtractionStillStored ==
    \A t \in Requests :
        (pc[t] = "done" /\ kg[t] # NotReturned /\ kg[t].entities = <<>>) =>
            /\ http[t].status = 200
            /\ http[t].body.success
            /\ http[t].body.entities = <<>>
            /\ http[t].body.relationships = <<>>
            /\ http[t].body.entities_extracted = 0
            /\ http[t].body.relationships_extracted = 0
            /\ DocumentAndChunksWritten(t)

\* C9 witness: an ingest whose LLM was unavailable and one whose completion
\* could not be decoded both completed, into a graph holding nothing but their
\* Document and Chunk nodes.
C9_Witness ==
    /\ \E t \in Requests :
          pc[t] = "done" /\ outcome[t] = "unavailable" /\ DocumentAndChunksWritten(t)
    /\ \E t \in Requests :
          pc[t] = "done" /\ outcome[t] = "undecodable" /\ DocumentAndChunksWritten(t)
    /\ graph.entities = {}
    /\ graph.chunks # {}

TimedOut(t) == pc[t] = "done" /\ outcome[t] = "timeout"

NothingStarted(t) ==
    /\ req[t] = NoRequest
    /\ kg[t] = NotReturned
    /\ acquired[t] = 0
    /\ outcome[t] = "none"
    /\ ~vllm_client
    /\ metrics = [active_extractions |-> 0, total_queued |-> 0,
                  total_completed |-> 0, total_failed |-> 0]
    /\ semaphore = MAX_CONCURRENT_EXTRACTIONS
    /\ graph = EmptyGraph

\* C11: POST /api/v1/ingest with a valid body is answered 503 when
\* kg_processor is not initialized, and no extraction or graph write is started.
C11_UninitializedAnswers503 ==
    (pc[1] # "new" /\ ~kg_processor /\ http[1].status # 422) =>
        (http[1].status = 503 /\ NothingStarted(1))

\* the chunks of a body are not in strictly increasing chunk_index order, or one
\* of them has char_end <= char_start
ChunksOutOfOrder(b) ==
    \/ \E i \in DOMAIN b.chunks : b.chunks[i].char_end <= b.chunks[i].char_start
    \/ \E i, j \in DOMAIN b.chunks :
          j = i + 1 /\ b.chunks[j].chunk_index <= b.chunks[i].chunk_index

\* C12: an ingest request whose chunks are not in strictly increasing
\* chunk_index order, or that has a chunk with char_end <= char_start, is
\* answered 422 before process_document is called: no extraction and no graph
\* write.
C12_UnorderedChunksRejected ==
    (pc[1] # "new" /\ ChunksOutOfOrder(body)) =>
        (pc[1] = "done" /\ http[1].status = 422 /\ NothingStarted(1))

\* C12 witness: a body whose only fault is the order of its two chunks
\* (chunk_index 1, then 0), sent to an initialized service, was answered 422.
C12_Witness ==
    /\ pc[1] = "done"
    /\ http[1].status = 422
    /\ kg_processor
    /\ body.content_id > 0
    /\ body.url = "https://example.com"
    /\ body.markdown = MdA
    /\ Len(body.chunks) = 2
    /\ \A i \in DOMAIN body.chunks : ValidChunkMetadata(body.chunks[i])
    /\ body.chunks[1].chunk_index = 1
    /\ body.chunks[2].chunk_index = 0

(***************************************************************************)
(* The graph after a series of process_document calls                      *)
(***************************************************************************)
RECURSIVE SumSeq(_)
SumSeq(q) == IF q = <<>> THEN 0 ELSE Head(q) + SumSeq(Tail(q))

\* the normalized key of the Entity node with this id
NormalizedOf(node_id) ==
    (CHOOSE e \in graph.entities : e.id = node_id).normalized

\* the relationships of one call that are the triple (s, rel_type, o)
TripleHits(relationships, s, rel_type, o) ==
    SelectSeq(relationships,
              LAMBDA r : /\ r.subject_normalized = s
                         /\ UpperSnake(r.predicate) = rel_type
                         /\ r.object_normalized = o)

\* the number of process_document calls in which the triple was extracted
CallsWithTriple(s, rel_type, o) ==
    Cardinality({i \in DOMAIN ingests :
        TripleHits(ingests[i].extracted.relationships, s, rel_type, o) # <<>>})

\* C13: the occurrence_count of every stored triple is the number of
\* process_document calls in which that triple was extracted, however often
\* one document states it
C13_OccurrenceCountIsDocumentCount ==
    \A r \in graph.relationships :
        r.occurrence_count =
            CallsWithTriple(NormalizedOf(r.subject), r.rel_type, NormalizedOf(r.object))

\* the Document nodes with a HAS_CHUNK edge to the Chunk node c
ParentsOf(c) == {d \in graph.documents : <<d.id, c.id>> \in graph.has_chunk}

\* C14: every Chunk node has exactly one incoming HAS_CHUNK edge, whatever
\* content_ids and vector_rowids the documents carry
C14_ChunkHasOneParent ==
    \A c \in graph.chunks : Cardinality(ParentsOf(c)) = 1

RECURSIVE Flatten(_)
\* the sequences of a sequence, one after another
Flatten(qs) == IF qs = <<>> THEN <<>> ELSE Head(qs) \o Flatten(Tail(qs))

\* the confidences of the records of q
ConfidencesOf(q) == [j \in DOMAIN q |-> q[j].confidence]

\* the confidences of the create_entity calls for one normalized key
EntityConfidences(normalized) ==
    Flatten([i \in DOMAIN ingests |->
        ConfidencesOf(SelectSeq(ingests[i].result.entities,
                                LAMBDA e : e.normalized = normalized))])

\* the confidences of the create_relationship calls for one triple
RelationshipConfidences(s, rel_type, o) ==
    Flatten([i \in DOMAIN ingests |->
        ConfidencesOf(TripleHits(ingests[i].result.relationships, s, rel_type, o))])

\* avg is the mean of the samples
IsMeanOf(avg, samples) ==
    /\ samples # <<>>
    /\ avg.num * Len(samples) = SumSeq(samples) * avg.den

\* C15: after k create_entity calls for one normalized key the entity has
\* mention_count k and avg_confidence the mean of the k confidences, and
\* create_relationship keeps occurrence_count and confidence the same way
C15_RunningAverageIsMean ==
    /\ \A e \in graph.entities :
          LET samples == EntityConfidences(e.normalized)
          IN  e.mention_count = Len(samples) /\ IsMeanOf(e.avg_confidence, samples)
    /\ \A r \in graph.relationships :
          LET samples == RelationshipConfidences(NormalizedOf(r.subject), r.rel_type,
                                                 NormalizedOf(r.object))
          IN  r.occurrence_count = Len(samples) /\ IsMeanOf(r.confidence, samples)

\* an entity met three times with confidences 90, 60, 60 and a relationship
\* stored four times with confidences 70, 50, 70, 50
C15_Witness ==
    /\ \E e \in graph.entities :
          /\ e.mention_count = 3
          /\ EntityConfidences(e.normalized) = <<90, 60, 60>>
          /\ e.avg_confidence = Fraction(70, 1)
    /\ \E r \in graph.relationships :
          /\ r.occurrence_count = 4
          /\ r.confidence = Fraction(60, 1)

\* C16: each unordered pair of distinct entities has at most one
\* CO_OCCURS_WITH edge, the edge runs from the smaller normalized key to the
\* larger, and update_co_occurrence(a, b, c) does what
\* update_co_occurrence(b, a, c) does
C16_CoOccurrenceOneEdgePerPair ==
    /\ \A x, y \in graph.co_occurs_with :
          {x.e1, x.e2} = {y.e1, y.e2} => x = y
    /\ \A x \in graph.co_occurs_with :
          StrLess(NormalizedOf(x.e1), NormalizedOf(x.e2))
    /\ \A a, b \in CoOccurrenceKeys, c \in CoOccurrenceRowids :
          UpdateCoOccurrence(graph, a, b, c) = UpdateCoOccurrence(graph, b, a, c)

\* the pair was passed larger key first and then smaller key first, and the
\* graph holds the one edge neo4j -> python counting both calls
C16_Witness ==
    /\ co_calls = <<<<"python", "neo4j", 1>>, <<"neo4j", "python", 2>>>>
    /\ \E x \in graph.co_occurs_with :
          /\ NormalizedOf(x.e1) = "neo4j"
          /\ NormalizedOf(x.e2) = "python"
          /\ x.count = 2
          /\ x.chunk_rowids = <<1, 2>>
    /\ Cardinality(graph.co_occurs_with) = 1

(***************************************************************************)
(* Enhanced search: scoring, ranking, cut                                  *)
(***************************************************************************)
\* the chunks of the response, once there is one with status 200
ReturnedChunks ==
    IF /\ search_request.endpoint = "enhanced"
       /\ search_response # <<>>
       /\ search_response[1].status = 200
    THEN search_response[1].chunks ELSE <<>>

\* the chunk maps of the query result that are scored: the first of each
\* vector_rowid, search_chunks before expanded_chunks
FirstMapOf(vector_rowid) ==
    LET maps == query_result.search_chunks \o query_result.expanded_chunks
        hits == {i \in DOMAIN maps : maps[i].vector_rowid = vector_rowid}
    IN  maps[CHOOSE i \in hits : \A j \in hits : i <= j]

C18_DedupedSortedCut ==
    /\ \A i, j \in DOMAIN ReturnedChunks :
          ReturnedChunks[i].vector_rowid = ReturnedChunks[j].vector_rowid => i = j
    /\ \A i \in DOMAIN ReturnedChunks :
          LET c == ReturnedChunks[i]
          IN  (\E k \in DOMAIN query_result.search_chunks :
                  query_result.search_chunks[k].vector_rowid = c.vector_rowid)
              => /\ c.expanded_entity_count = 0
                 /\ c.expansion_score =
                        ScoreSearchChunk(Len(FirstMapOf(c.vector_rowid).search_entities))
    /\ \A i, j \in DOMAIN ReturnedChunks :
          i < j => ReturnedChunks[i].expansion_score >= ReturnedChunks[j].expansion_score
    /\ search_response # <<>> => Len(ReturnedChunks) <= search_request.max_chunks

\* chunk 1 is listed with one search entity and again as an expansion chunk
\* with four entities, chunk 3 is an expansion chunk with four entities, and
\* max_chunks 1 leaves chunk 3 alone in the response
C18_Witness ==
    /\ search_request.max_chunks = 1
    /\ Len(query_result.search_chunks) = 1
    /\ query_result.search_chunks[1].vector_rowid = 1
    /\ Len(query_result.search_chunks[1].search_entities) = 1
    /\ Len(query_result.expanded_chunks) = 2
    /\ query_result.expanded_chunks[1].vector_rowid = 1
    /\ Len(query_result.expanded_chunks[1].expanded_entities) = 4
    /\ query_result.expanded_chunks[2].vector_rowid = 3
    /\ Len(query_result.expanded_chunks[2].expanded_entities) = 4
    /\ Len(ReturnedChunks) = 1
    /\ ReturnedChunks[1].vector_rowid = 3 /\ ReturnedChunks[1].expansion_score = 8

(***************************************************************************)
(* The search endpoints                                                    *)
(***************************************************************************)
\* the vector_rowids of the chunks of a 200 response
ReturnedRowids == {ReturnedChunks[i].vector_rowid : i \in DOMAIN ReturnedChunks}

\* C19: an enhanced search whose search_term_entities hold the text of an
\* entity with a MENTIONED_IN edge to a chunk returns that chunk, max_chunks
\* leaving room for every chunk of the graph
C19_MentionedChunkIsReturned ==
    (/\ search_request.endpoint = "enhanced"
     /\ Cardinality(graph.chunks) <= search_request.max_chunks)
    => \A e \in graph.entities, c \in graph.chunks :
          (/\ e.text \in Range(search_request.search_term_entities)
           /\ \E m \in graph.mentioned_in : m.entity_id = e.id /\ m.chunk_id = c.id)
          => c.vector_rowid \in ReturnedRowids

\* the entities of the response to POST /api/v1/search/entities
ReturnedEntities ==
    IF search_request.endpoint = "entities" THEN search_response[1].entities ELSE <<>>

\* C20: the entities returned by POST /api/v1/search/entities hold no entity
\* twice and are ordered by mention_count descending over the whole list
C20_EntitiesUniqueAndDescending ==
    /\ \A i, j \in DOMAIN ReturnedEntities :
          ReturnedEntities[i].entity_id = ReturnedEntities[j].entity_id => i = j
    /\ \A i, j \in DOMAIN ReturnedEntities :
          i < j => ReturnedEntities[i].mention_count >= ReturnedEntities[j].mention_count

(***************************************************************************)
(* VLLMClient                                                              *)
(***************************************************************************)
\* the first call begun after position i of client_log, as a set of positions
NextBeginAfter(i) ==
    {j \in DOMAIN client_log :
        /\ j > i
        /\ client_log[j].event = "begin"
        /\ \A k \in (i + 1)..(j - 1) : client_log[k].event # "begin"}

\* a completion or a discovery failed at position i
FailedAt(i) ==
    \/ client_log[i].event = "completion_failed"
    \/ client_log[i].event = "discovered" /\ ~client_log[i].found

\* a discovery begun before position i answered with a model between i and j
AnsweredBetween(i, j) ==
    \E k \in (i + 1)..(j - 1) :
        client_log[k].event = "discovered" /\ client_log[k].found

\* the model state is cleared as a failed completion ends
ClearedOnFailure ==
    (client_log # <<>> /\ client_log[Len(client_log)].event = "completion_failed")
    => model_state = NoModel

\* C21 as stated: a failed completion clears the cached model state, and the
\* call that follows a failed completion or a failed discovery issues a
\* discovery request
C21_FailureForcesRediscovery ==
    /\ ClearedOnFailure
    /\ \A i \in DOMAIN client_log :
          FailedAt(i) => \A j \in NextBeginAfter(i) : client_log[j].discovers

\* C21, amended: the call that follows a failure issues a discovery request
\* unless a discovery already in flight answered with a model in between
C21_FailureForcesRediscoveryUnlessAnswered ==
    /\ ClearedOnFailure
    /\ \A i \in DOMAIN client_log :
          FailedAt(i) => \A j \in NextBeginAfter(i) :
              client_log[j].discovers \/ AnsweredBetween(i, j)

\* a completion failed with the model cached, and the next call discovers
C21_Witness ==
    \E i \in DOMAIN client_log :
        /\ client_log[i].event = "completion_failed"
        /\ i < Len(client_log)
        /\ client_log[i + 1].event = "begin"
        /\ client_log[i + 1].discovers
        /\ \E k \in 1..(i - 1) : client_log[k].event = "discovered" /\ client_log[k].found

\* the times of the discovery requests, in order
DiscoveryTimes ==
    LET asked == SelectSeq(client_log,
                           LAMBDA ev : ev.event = "begin" /\ ev.discovers)
    IN  [i \in DOMAIN asked |-> asked[i].time]

\* C22: two consecutive discovery requests are at least retry_interval
\* seconds apart
C22_DiscoveriesSpaced ==
    \A i \in 1..(Len(DiscoveryTimes) - 1) :
        DiscoveryTimes[i + 1] - DiscoveryTimes[i] >= retry_interval

(***************************************************************************)
(* The order of the graph writes of one document                           *)
(***************************************************************************)
\* the writes of the document being stored, or stored last
Writes == IF store.phase = "idle" THEN <<>> ELSE store.writes

WriteRank(w) ==
    CASE w.kind = "Document" -> 0
      [] w.kind = "Chunk" -> 1
      [] w.kind = "Entity" -> 2
      [] w.kind = "MentionedIn" -> 2
      [] OTHER -> 3

\* the statements one at a time leave the graph _store_in_neo4j leaves
StoredAsAWhole ==
    store.phase = "done"
    => graph = StoreInNeo4j(store.before, store.content_id, store.chunks,
                            store.entities, store.relationships).graph

\* C23: within one document the Document is written before every Chunk,
\* every Chunk before every Entity, each MENTIONED_IN edge after its Entity
\* and its Chunk, and every Relationship after all Entity and MENTIONED_IN
\* writes
C23_WritesInOrder ==
    /\ \A a, b \in DOMAIN Writes :
          a < b => WriteRank(Writes[a]) <= WriteRank(Writes[b])
    /\ \A a \in DOMAIN Writes : Writes[a].kind = "Document" <=> a = 1
    /\ \A b \in DOMAIN Writes :
          Writes[b].kind = "MentionedIn"
          => /\ \E a \in 1..(b - 1) :
                   /\ Writes[a].kind = "Entity"
                   /\ Writes[a].normalized = Writes[b].normalized
             /\ \E a \in 1..(b - 1) :
                   /\ Writes[a].kind = "Chunk"
                   /\ Writes[a].vector_rowid = Writes[b].vector_rowid
    /\ StoredAsAWhole

\* a document stored to the end with writes of all five kinds
C23_Witness ==
    /\ store.phase = "done"
    /\ \A kind \in {"Document", "Chunk", "Entity", "MentionedIn", "Relationship"} :
          \E a \in DOMAIN Writes : Writes[a].kind = kind
    /\ Cardinality({a \in DOMAIN Writes : Writes[a].kind = "Entity"}) = 2

(***************************************************************************)
(* The truncation healer                                                   *)
(***************************************************************************)
\* the closer of an opener
CloserOf(ch) == IF ch = "{" THEN "}" ELSE "]"

RECURSIVE NestedFrom(_, _, _)
\* the text from position i on closes the openers of the stack, innermost
\* first, and leaves none open
NestedFrom(text, i, stack) ==
    IF i > Len(text) THEN stack = <<>>
    ELSE IF text[i] \in {"{", "["}
    THEN NestedFrom(text, i + 1, <<text[i]>> \o stack)
    ELSE IF text[i] \in {"}", "]"}
    THEN /\ stack # <<>>
         /\ CloserOf(Head(stack)) = text[i]
         /\ NestedFrom(text, i + 1, Tail(stack))
    ELSE NestedFrom(text, i + 1, stack)

\* braces and brackets balanced and correctly nested
WellNested(text) == NestedFrom(text, 1, <<>>)

\* C24: the healer returns the empty document or a text in which braces and
\* brackets are balanced and correctly nested
C24_HealedIsWellNested ==
    (unit_call.fn = "_heal_truncated_json" /\ unit_call.returned)
    => \/ unit_call.result = EmptyDocument
       \/ WellNested(unit_call.result)

(***************************************************************************)
(* The escape sanitizer                                                    *)
(***************************************************************************)
\* the length of the valid JSON escape that starts at position i, or 0
ValidEscapeAt(text, i) ==
    IF text[i] # BackSlash \/ i = Len(text) THEN 0
    ELSE IF text[i + 1] \in {Quote, BackSlash} THEN 2
    ELSE IF text[i + 1] = "u" /\ HexRun(text, i + 2) >= 4 THEN 6
    ELSE 0

RECURSIVE OnlyLoneDoubledFrom(_, _)
\* the text with its valid escapes as they are and every other backslash
\* doubled
OnlyLoneDoubledFrom(text, i) ==
    IF i > Len(text) THEN <<>>
    ELSE IF ValidEscapeAt(text, i) > 0
    THEN SubSeq(text, i, i + ValidEscapeAt(text, i) - 1)
         \o OnlyLoneDoubledFrom(text, i + ValidEscapeAt(text, i))
    ELSE IF text[i] = BackSlash
    THEN <<BackSlash, BackSlash>> \o OnlyLoneDoubledFrom(text, i + 1)
    ELSE <<text[i]>> \o OnlyLoneDoubledFrom(text, i + 1)

\* C25: the sanitizer leaves every valid escape unchanged and doubles only
\* the backslashes outside a valid escape, and applied to its own output it
\* changes nothing
C25_SanitizerKeepsValidEscapes ==
    (unit_call.fn = "_sanitize_escape_sequences" /\ unit_call.returned)
    => /\ unit_call.result = OnlyLoneDoubledFrom(unit_call.text, 1)
       /\ SanitizeEscapeSequences(unit_call.result) = unit_call.result

(***************************************************************************)
(* The primary chunk of a relationship                                     *)
(***************************************************************************)
RowidsOf(appearances) == {appearances[i].vector_rowid : i \in DOMAIN appearances}

\* the chunk_index the chunk list gives the chunk of this vector_rowid
IndexOfChunk(chunks, rowid) ==
    (CHOOSE c \in Range(chunks) : c.vector_rowid = rowid).chunk_index

IndexDifference(chunks, s, o) ==
    Abs(IndexOfChunk(chunks, s) - IndexOfChunk(chunks, o))

\* what the priority rule of the primary chunk allows for S, O and the chunks
IsPrimaryOf(p, S, O, chunks) ==
    IF S \cap O # {} THEN p = MinOfSet(S \cap O)
    ELSE IF S # {} /\ O # {}
    THEN \E s \in S, o \in O :
            /\ p = Min(s, o)
            /\ \A s2 \in S, o2 \in O :
                  IndexDifference(chunks, s, o) <= IndexDifference(chunks, s2, o2)
    ELSE IF S # {} THEN p = MinOfSet(S)
    ELSE IF O # {} THEN p = MinOfSet(O)
    ELSE p = None

\* C26: the primary chunk is the lowest shared chunk, else the lower chunk of
\* a closest (subject chunk, object chunk) pair, else the lowest subject
\* chunk, else the lowest object chunk, else none; and it is one of the
\* relationship's chunk_rowids
C26_PrimaryChunkByPriority ==
    (unit_call.fn = "map_relationships_to_chunks" /\ unit_call.returned)
    => /\ Len(unit_call.result) = 1
       /\ IsPrimaryOf(unit_call.result[1].primary_chunk_rowid,
                      RowidsOf(unit_call.subject), RowidsOf(unit_call.object),
                      unit_call.chunks)
       /\ unit_call.result[1].primary_chunk_rowid # None
          => unit_call.result[1].primary_chunk_rowid
                 \in Range(unit_call.result[1].chunk_rowids)

\* a relationship spanning chunks whose closest pair is not the first pair
\* the loops meet
C26_Witness ==
    /\ unit_call.fn = "map_relationships_to_chunks"
    /\ unit_call.returned
    /\ unit_call.result[1].spans_chunks
    /\ Len(unit_call.subject) > 0
    /\ Len(unit_call.object) > 0
    /\ unit_call.result[1].primary_chunk_rowid
          # Min(unit_call.subject[1].vector_rowid, unit_call.object[1].vector_rowid)

(***************************************************************************)
(* The segments handed to the entity model                                 *)
(***************************************************************************)
RECURSIVE SliceFrom(_, _, _, _, _)
\* text[a:b] as runs
SliceFrom(text, i, pos, a, b) ==
    IF i > Len(text) THEN <<>>
    ELSE LET lo == Max(a, pos)
             hi == Min(b, pos + text[i].n)
         IN  (IF hi > lo THEN <<[ch |-> text[i].ch, n |-> hi - lo]>> ELSE <<>>)
             \o SliceFrom(text, i + 1, pos + text[i].n, a, b)

RECURSIVE Canonical(_)
\* the runs of a text with adjacent runs of one character merged
Canonical(text) ==
    IF Len(text) <= 1 THEN text
    ELSE IF text[1].ch = text[2].ch
    THEN Canonical(<<[ch |-> text[1].ch, n |-> text[1].n + text[2].n]>>
                   \o SubSeq(text, 3, Len(text)))
    ELSE <<text[1]>> \o Canonical(Tail(text))

\* C27: every segment of a text longer than 1500 characters is the original
\* text from its char_start up to its char_end
C27_SegmentIsOriginalSlice ==
    (unit_call.fn = "extract" /\ unit_call.returned
       /\ TextLength(unit_call.text) > 1500)
    => \A k \in DOMAIN unit_call.gliner_chunks :
          LET segment == unit_call.gliner_chunks[k]
          IN  Canonical(segment.text)
                  = Canonical(SliceFrom(unit_call.text, 1, 0,
                                        segment.char_start, segment.char_end))

(***************************************************************************)
(* The retried health check                                                *)
(***************************************************************************)
\* C28: when the health check reports a failure to its caller, the request
\* has been made 3 times
C28_FailureReportedAfterThreeTries ==
    (health.pc = "raised" /\ health.client = "KGServiceClient")
    => health.tries = 3

(***************************************************************************)
(* Initialization once                                                     *)
(***************************************************************************)
\* C29: between construction and shutdown the initialization body runs to
\* the end at most once, and a call that gets to test _initialized after
\* that returns true (or is not made by process_document) without connecting
C29_InitializedOnce ==
    /\ initializer.successes <= 1
    /\ \A c \in ProcessorCallers :
          initializer.calls[c].after_success
          => /\ ~initializer.calls[c].connected
             /\ initializer.calls[c].pc = "done"
             /\ initializer.calls[c].result \in {"True", "not called"}

\* a call that waited for the lock while another ran the body, and returned
\* true without connecting
C29_Witness ==
    /\ initializer.successes = 1
    /\ \E c, d \in ProcessorCallers :
          /\ c # d
          /\ initializer.calls[c].waited
          /\ initializer.calls[c].after_success
          /\ initializer.calls[c].result = "True"
          /\ ~initializer.calls[c].connected
          /\ initializer.calls[d].connected
          /\ initializer.calls[d].result = "True"

(***************************************************************************)
(* The extraction counters                                                 *)
(***************************************************************************)
\* C30: completed + failed + active never exceeds queued; the calls counted
\* as active are those that took a slot and have not yet been counted as
\* completed or failed; and when no extract_kg call is in flight, active is
\* 0 and queued = completed + failed
C30_CountersConsistent ==
    LET m == GetMetrics(metrics)
    IN  /\ m.total_completed + m.total_failed + m.active_extractions <= m.total_queued
        /\ m.active_extractions = Cardinality({t \in Requests : pc[t] = "llm"})
        /\ (\A t \in Requests : ~InExtractKG(t))
           => /\ m.active_extractions = 0
              /\ m.total_queued = m.total_completed + m.total_failed

=============================================================================
